---- MODULE Spec2Model ----
(***************************************************************************)
(* A model of the c0 compiler front end (github.com/susji/c0): the type    *)
(* model (package types), the analyzer's scopes and its single-pass check  *)
(* (package analyze), and the SSA emitter with its toy VM (packages ssa    *)
(* and ssa/vm).                                                            *)
(*                                                                         *)
(* Go values are modelled as records.  A Go panic is modelled by a result  *)
(* of "panic" (for the pure functions) or by the analyzer's field          *)
(* `panicked` (for the stateful ones): nothing runs after a panic, since   *)
(* no function of these packages recovers.                                 *)
(***************************************************************************)
EXTENDS Integers, Sequences, FiniteSets, TLC

VARIABLES
    \* package types: three types and the outcome of matching them
    ta, tb, tc, tres,
    \* analyze/scope.go: the chain of scopes (root first) and the last call
    chain, sop,
    \* package ssa and ssa/vm: the function body, the SSA object, the VM
    prog, ssa, vm, spc,
    \* package analyze: the node forest, the Analyzer, the Analyze loop
    forest, an, apc, res1,
    \* package cfg: the function definition, its graph, the last Connect call
    fundef, cfg, cpc, conn,
    \* package token: the FIFO and the last operation on it
    fifo, tkop,
    \* package parse: the source handed to the parser and the call made on it
    src, par

vars ==
    <<ta, tb, tc, tres, chain, sop, prog, ssa, vm, spc, forest, an, apc, res1,
      fundef, cfg, cpc, conn, fifo, tkop, src, par>>

typeVars == <<ta, tb, tc, tres>>
scopeVars == <<chain, sop>>
ssaVars == <<prog, ssa, vm, spc>>
anVars == <<forest, an, apc, res1>>
cfgVars == <<fundef, cfg, cpc, conn>>
tokVars == <<fifo, tkop>>
parseVars == <<src, par>>

(***************************************************************************)
(* Small helpers.                                                          *)
(***************************************************************************)
Range(f) == {f[i] : i \in DOMAIN f}

Max(a, b) == IF a < b THEN b ELSE a

min(a, b) == IF a < b THEN a ELSE b

SeqSets(S, n) == UNION {[1..k -> S] : k \in 0..n}

(***************************************************************************)
(* package types                                                           *)
(***************************************************************************)
NilType == [Type |-> "nil"]

NilExtra == [x |-> "nil"]

NewType(t, pointerlevel, arraylevel) ==
    [Type |-> t, PointerLevel |-> pointerlevel, ArrayLevel |-> arraylevel,
     Extra |-> NilExtra]

NewTypeExtra(t, pointerlevel, arraylevel, extra) ==
    [Type |-> t, PointerLevel |-> pointerlevel, ArrayLevel |-> arraylevel,
     Extra |-> extra]

Function(returns, paramtypes) ==
    [x |-> "Function", Returns |-> returns, ParamTypes |-> paramtypes]

StructField(name, type) == [Name |-> name, Type |-> type]

Struct(name, fields) == [x |-> "Struct", Name |-> name, Fields |-> fields]

StructForward(name) == [x |-> "StructForward", Name |-> name]

\* Go's a && b over the three outcomes: b is not evaluated when a is false.
AndThen(a, b) == IF a = "true" THEN b ELSE a

RECURSIVE TypeMatches(_, _)
RECURSIVE TypesMatchesFrom(_, _, _)
RECURSIVE StructFieldsMatchesFrom(_, _, _)

\* Types.Matches: the lengths are compared first.
TypesMatchesFrom(t, t2, i) ==
    IF i > Len(t) THEN "true"
    ELSE LET m == TypeMatches(t[i], t2[i])
         IN  IF m = "true" THEN TypesMatchesFrom(t, t2, i + 1) ELSE m

TypesMatches(t, t2) ==
    IF Len(t) # Len(t2) THEN "false" ELSE TypesMatchesFrom(t, t2, 1)

FunctionMatches(f, f2) ==
    AndThen(TypeMatches(f.Returns, f2.Returns),
            TypesMatches(f.ParamTypes, f2.ParamTypes))

StructFieldMatches(sm, sm2) ==
    IF sm.Name # sm2.Name THEN "false" ELSE TypeMatches(sm.Type, sm2.Type)

\* StructFields.Matches: ranges over sm and indexes sm2 with no length check.
StructFieldsMatchesFrom(sm, sm2, i) ==
    IF i > Len(sm) THEN "true"
    ELSE IF i > Len(sm2) THEN "panic"
    ELSE LET m == StructFieldMatches(sm[i], sm2[i])
         IN  IF m = "true" THEN StructFieldsMatchesFrom(sm, sm2, i + 1) ELSE m

StructFieldsMatches(sm, sm2) == StructFieldsMatchesFrom(sm, sm2, 1)

StructMatches(s, s2) ==
    IF s.Name # s2.Name THEN "false" ELSE StructFieldsMatches(s.Fields, s2.Fields)

\* Type.Matches; a nil receiver or argument is a nil dereference, a failed
\* type assertion on Extra panics.
TypeMatches(k, k2) ==
    IF k = NilType \/ k2 = NilType THEN "panic"
    ELSE IF k.Type # k2.Type \/ k.PointerLevel # k2.PointerLevel
            \/ k.ArrayLevel # k2.ArrayLevel THEN "false"
    ELSE CASE k.Type = "TYPE_STRUCT" ->
                IF k.Extra.x # "Struct" \/ k2.Extra.x # "Struct" THEN "panic"
                ELSE StructMatches(k.Extra, k2.Extra)
           [] k.Type = "TYPE_STRUCT_FWD" ->
                IF k.Extra.x # "StructForward" \/ k2.Extra.x # "StructForward"
                THEN "panic"
                ELSE IF k.Extra.Name = k2.Extra.Name THEN "true" ELSE "false"
           [] k.Type = "TYPE_FUNC" ->
                IF k.Extra.x # "Function" \/ k2.Extra.x # "Function" THEN "panic"
                ELSE FunctionMatches(k.Extra, k2.Extra)
           [] OTHER -> "true"

\* Type.DecPtr, IncPtr, IncArray, DecArray on a copy of the type.  The two
\* decrements panic below zero.
IncPtr(t) == [t EXCEPT !.PointerLevel = @ + 1]

IncArray(t) == [t EXCEPT !.ArrayLevel = @ + 1]

DecPtr(t) == [t EXCEPT !.PointerLevel = @ - 1]

DecArray(t) == [t EXCEPT !.ArrayLevel = @ - 1]

typeBool == NewType("TYPE_BOOL", 0, 0)

typeInt == NewType("TYPE_INT", 0, 0)

typeChar == NewType("TYPE_CHAR", 0, 0)

typeVoid == NewType("TYPE_VOID", 0, 0)

(***************************************************************************)
(* The types the matching relation is exercised on: plain and pointer      *)
(* types, struct types with field lists of 0..MaxFields fields, forward    *)
(* declarations and function types.                                        *)
(***************************************************************************)
MaxFields == 2

PlainTypes ==
    {NewType("TYPE_INT", 0, 0), NewType("TYPE_BOOL", 0, 0),
     NewType("TYPE_INT", 1, 0), NewType("TYPE_INT", 0, 1)}

FieldTypes == {typeInt, typeBool}

FieldLists ==
    UNION {{[i \in 1..n |-> StructField(IF i = 1 THEN "a" ELSE "b", ft[i])] :
            ft \in [1..n -> FieldTypes]} : n \in 0..MaxFields}

StructTypes ==
    {NewTypeExtra("TYPE_STRUCT", 0, 0, Struct(nm, fl)) :
        nm \in {"s", "t"}, fl \in FieldLists}

FwdTypes ==
    {NewTypeExtra("TYPE_STRUCT_FWD", 1, 0, StructForward(nm)) : nm \in {"s", "t"}}

FuncTypes ==
    {NewTypeExtra("TYPE_FUNC", 0, 0, Function(r, ps)) :
        r \in {typeInt, typeVoid}, ps \in {<<>>, <<typeInt>>, <<typeBool>>}}

TypeUniverse == PlainTypes \cup StructTypes \cup FwdTypes \cup FuncTypes

NoResult == [aa |-> "", ab |-> "", ba |-> "", bc |-> "", ac |-> ""]

(***************************************************************************)
(* analyze/scope.go: type scope.  The chain is a sequence of maps from     *)
(* names to types; chain[Len(chain)] is the current scope and chain[i-1]   *)
(* the parent of chain[i].                                                 *)
(***************************************************************************)
EmptyMap == [n \in {} |-> NilType]

\* newScope(parent, from)
newScope(ch) == Append(ch, EmptyMap)

\* s.parent, as withScope restores it
parentScope(ch) == SubSeq(ch, 1, Len(ch) - 1)

RECURSIVE scopeGetFrom(_, _, _)

scopeGetFrom(ch, cur, name) ==
    IF cur = 0 THEN NilType
    ELSE IF name \in DOMAIN ch[cur] THEN ch[cur][name]
    ELSE scopeGetFrom(ch, cur - 1, name)

\* A lookup that only reads the current scope.
scopeGetCurrentOnly(ch, name) ==
    IF Len(ch) > 0 /\ name \in DOMAIN ch[Len(ch)] THEN ch[Len(ch)][name]
    ELSE NilType

\* scope.get
scopeGet(ch, name) == scopeGetFrom(ch, Len(ch), name)

\* scope.add: err is TRUE for errVarAlreadyDefined
scopeAdd(ch, name, kind) ==
    IF scopeGet(ch, name) # NilType
    THEN [err |-> TRUE, chain |-> ch]
    ELSE [err |-> FALSE,
          chain |-> [ch EXCEPT ![Len(ch)] = (name :> kind) @@ @]]

(***************************************************************************)
(* The scope operations as a state machine: scopes are entered and left    *)
(* as withScope does, names are inserted and looked up in the current one. *)
(***************************************************************************)
MaxScopeDepth == 3

ScopeNames == {"x", "y", "z"}

ScopeTypes == {typeInt, typeBool}

NoOp == [op |-> "none", name |-> "", kind |-> NilType, err |-> FALSE, got |-> NilType]


ScopeEnter ==
    /\ Len(chain) < MaxScopeDepth
    /\ chain' = newScope(chain)
    /\ sop' = [NoOp EXCEPT !.op = "enter"]

ScopeLeave ==
    /\ Len(chain) > 1
    /\ chain' = parentScope(chain)
    /\ sop' = [NoOp EXCEPT !.op = "leave"]

ScopeInsert ==
    \E name \in ScopeNames, kind \in ScopeTypes :
        LET r == scopeAdd(chain, name, kind)
        IN  /\ chain' = r.chain
            /\ sop' = [op |-> "add", name |-> name, kind |-> kind,
                       err |-> r.err, got |-> NilType]

ScopeLookup ==
    \E name \in ScopeNames :
        /\ chain' = chain
        /\ sop' = [op |-> "get", name |-> name, kind |-> NilType,
                   err |-> FALSE, got |-> scopeGet(chain, name)]

ScopeNext ==
    /\ \/ ScopeEnter
       \/ ScopeLeave
       \/ ScopeInsert
       \/ ScopeLookup
    /\ UNCHANGED <<typeVars, ssaVars, anVars, cfgVars, tokVars, parseVars>>

(***************************************************************************)
(* Matching as a state machine: three types are drawn, Matches is called   *)
(* on the pairs.                                                           *)
(***************************************************************************)


CallMatches ==
    /\ tres = NoResult
    /\ tres' = [aa |-> TypeMatches(ta, ta), ab |-> TypeMatches(ta, tb),
                ba |-> TypeMatches(tb, ta), bc |-> TypeMatches(tb, tc),
                ac |-> TypeMatches(ta, tc)]
    /\ UNCHANGED <<ta, tb, tc, scopeVars, ssaVars, anVars, cfgVars, tokVars, parseVars>>

(***************************************************************************)
(* package node: the AST.  A node is a record tagged with its Go type in   *)
(* field t; a nil node is Nil.                                             *)
(***************************************************************************)
Nil == [t |-> "nil"]

Kind(kind, pointerlevel, arraylevel, name) ==
    [t |-> "Kind", Kind |-> kind, PointerLevel |-> pointerlevel,
     ArrayLevel |-> arraylevel, Name |-> name]

Variable(value) == [t |-> "Variable", Value |-> value]

Numeric(value) == [t |-> "Numeric", Value |-> value]

Bool(value) == [t |-> "Bool", Value |-> value]

Null == [t |-> "Null"]

StrLit(value) == [t |-> "StrLit", Value |-> value]

Args(value) == [t |-> "Args", Value |-> value]

OpUnary(op, to) == [t |-> "OpUnary", Op |-> op, To |-> to]

OpBinary(op, left, right) ==
    [t |-> "OpBinary", Op |-> op, Left |-> left, Right |-> right]

OpAssign(op, to, what) == [t |-> "OpAssign", Op |-> op, To |-> to, What |-> what]

VarDecl(kind, name) == [t |-> "VarDecl", Kind |-> kind, Name |-> name]

Block(value) == [t |-> "Block", Value |-> value]

If(cond, true, false) == [t |-> "If", Cond |-> cond, True |-> true, False |-> false]

While(cond, body) == [t |-> "While", Cond |-> cond, Body |-> body]

For(init, cond, oneach, body) ==
    [t |-> "For", Init |-> init, Cond |-> cond, OnEach |-> oneach, Body |-> body]

Return(expr) == [t |-> "Return", Expr |-> expr]

NodeAssert(expr) == [t |-> "Assert", Expr |-> expr]

Error(expr) == [t |-> "Error", Expr |-> expr]

Break == [t |-> "Break"]

Continue == [t |-> "Continue"]

Cast(to, what) == [t |-> "Cast", To |-> to, What |-> what]

Alloc(kind) == [t |-> "Alloc", Kind |-> kind]

AllocArray(kind, n) == [t |-> "AllocArray", Kind |-> kind, N |-> n]

FunDecl(name, returns, params) ==
    [t |-> "FunDecl", Name |-> name, Returns |-> returns, Params |-> params]

FunDef(name, returns, params, body) ==
    [t |-> "FunDef", Name |-> name, Returns |-> returns, Params |-> params,
     Body |-> body]

NodeStruct(name, members) == [t |-> "Struct", Name |-> name, Members |-> members]

StructForwardDecl(value) == [t |-> "StructForwardDecl", Value |-> value]

Typedef(name, kind) == [t |-> "Typedef", Name |-> name, Kind |-> kind]

TypedefFunc(name, returns, params) ==
    [t |-> "TypedefFunc", Name |-> name, Returns |-> returns, Params |-> params]

KindInt == Kind("KIND_INT", 0, 0, "")

KindBool == Kind("KIND_BOOL", 0, 0, "")

KindVoid == Kind("KIND_VOID", 0, 0, "")

(***************************************************************************)
(* package cfg: Form.  The graph is a map from block ids to blocks; the    *)
(* counters blockid and branchid are the package's globals.                *)
(***************************************************************************)
BLOCKID_ENTRY == 0

BLOCKID_EXIT == 1

NilBlock == -1

NilLoop == [set |-> FALSE]

EmptyBlock == [Stmts |-> <<>>, Successors |-> <<>>]

branchParent(to, n, how) == [to |-> to, node |-> n, how |-> how]

branchLoopBreakToStep(afterloop, sb, n) ==
    [set |-> TRUE, onBreak |-> branchParent(sb, n, "BK_ALWAYS"),
     onContinue |-> branchParent(sb, n, "BK_ALWAYS")]

branchLoop(afterloop, sb, n) ==
    [set |-> TRUE, onBreak |-> branchParent(afterloop, n, "BK_ALWAYS"),
     onContinue |-> branchParent(sb, n, "BK_ALWAYS")]

NewGraph ==
    [blocks |-> (BLOCKID_ENTRY :> EmptyBlock) @@ (BLOCKID_EXIT :> EmptyBlock),
     blockid |-> BLOCKID_EXIT, branchid |-> 0, panicked |-> FALSE]

\* newblock: the id of the new block is the new value of blockid
newblock(g) ==
    [g EXCEPT !.blockid = @ + 1, !.blocks = ((g.blockid + 1) :> EmptyBlock) @@ @]

newstmt(g, bb, n) == [g EXCEPT !.blocks[bb].Stmts = Append(@, n)]

newsucc(g, bb, rp) ==
    LET to == IF rp.to = NilBlock THEN BLOCKID_EXIT ELSE rp.to
    IN  [g EXCEPT !.branchid = @ + 1,
                  !.blocks[bb].Successors =
                      Append(@, [Id |-> g.branchid + 1, Kind |-> rp.how,
                                 Node |-> rp.node, From |-> bb, To |-> to])]

extractbody(n) == IF n.t = "Block" THEN n.Value ELSE <<n>>

RECURSIVE form(_, _, _, _, _)

newloop(g, this, n, body, kt, kf, rp, left, step) ==
    LET g1 == newblock(g)
        afterloop == g1.blockid
        g2 == form(g1, afterloop, rp, NilLoop, left)
        g3 == newblock(g2)
        lb == g3.blockid
        g4 == newblock(g3)
        sb == g4.blockid
        ss == IF step # Nil THEN <<step>> ELSE <<>>
        g5 == form(g4, sb, branchParent(lb, n, kt), NilLoop, ss)
        lp == branchLoop(afterloop, sb, n)
        g6 == form(g5, lb, branchParent(sb, n, "BK_ALWAYS"), lp, body)
        g7 == newsucc(g6, sb, branchParent(afterloop, n, kf))
        g8 == newsucc(g7, this, branchParent(lb, n, kt))
    IN  IF n.Body = Nil THEN [g EXCEPT !.panicked = TRUE]
        ELSE IF g2.panicked THEN g2
        ELSE IF g5.panicked THEN g5
        ELSE IF g6.panicked THEN g6
        ELSE newsucc(g8, this, branchParent(afterloop, n, kf))

newwhile(g, this, n, rp, left) ==
    newloop(g, this, n, extractbody(n.Body), "BK_WHILETRUE", "BK_WHILEFALSE",
            rp, left, Nil)

newfor(g, this, n, rp, left) ==
    newloop(g, this, n, extractbody(n.Body), "BK_FORTRUE", "BK_FORFALSE",
            rp, left, n.OnEach)

newifThenSkipsRest(g, this, n, rp, lp, left) ==
    LET g1 == newblock(g)
        afterif == g1.blockid
        g2 == form(g1, afterif, branchParent(rp.to, n, "BK_ALWAYS"), lp, left)
        g3 == newblock(g2)
        tb1 == g3.blockid
        g4 == form(g3, tb1, branchParent(rp.to, n, "BK_ALWAYS"), lp,
                   extractbody(n.True))
        g5 == newsucc(g4, this, branchParent(tb1, n, "BK_IFTRUE"))
        g6 == newblock(g5)
        fb == g6.blockid
        g7 == form(g6, fb, branchParent(afterif, n, "BK_ALWAYS"), lp,
                   extractbody(n.False))
    IN  IF g2.panicked THEN g2
        ELSE IF n.True = Nil THEN [g3 EXCEPT !.panicked = TRUE]
        ELSE IF g4.panicked THEN g4
        ELSE IF n.False # Nil
             THEN IF g7.panicked THEN g7
                  ELSE newsucc(g7, this, branchParent(fb, n, "BK_IFFALSE"))
             ELSE newsucc(g5, this, branchParent(afterif, n, "BK_IFNOELSE"))

newif(g, this, n, rp, lp, left) ==
    LET g1 == newblock(g)
        afterif == g1.blockid
        g2 == form(g1, afterif, branchParent(rp.to, n, "BK_ALWAYS"), lp, left)
        g3 == newblock(g2)
        tb1 == g3.blockid
        g4 == form(g3, tb1, branchParent(afterif, n, "BK_ALWAYS"), lp,
                   extractbody(n.True))
        g5 == newsucc(g4, this, branchParent(tb1, n, "BK_IFTRUE"))
        g6 == newblock(g5)
        fb == g6.blockid
        g7 == form(g6, fb, branchParent(afterif, n, "BK_ALWAYS"), lp,
                   extractbody(n.False))
    IN  IF g2.panicked THEN g2
        ELSE IF n.True = Nil THEN [g3 EXCEPT !.panicked = TRUE]
        ELSE IF g4.panicked THEN g4
        ELSE IF n.False # Nil
             THEN IF g7.panicked THEN g7
                  ELSE newsucc(g7, this, branchParent(fb, n, "BK_IFFALSE"))
             ELSE newsucc(g5, this, branchParent(afterif, n, "BK_IFNOELSE"))

formReturnGoesOn(g, b, rp, lp, left) ==
    IF g.panicked THEN g
    ELSE IF left = <<>> THEN newsucc(g, b, rp)
    ELSE LET n == Head(left)
             rest == Tail(left)
         IN  CASE n.t = "If" -> newif(g, b, n, rp, lp, rest)
               [] n.t = "For" -> newfor(newstmt(g, b, n.Init), b, n, rp, rest)
               [] n.t = "While" -> newwhile(g, b, n, rp, rest)
               [] n.t = "Break" ->
                    IF ~lp.set THEN [g EXCEPT !.panicked = TRUE]
                    ELSE newstmt(newsucc(g, b, lp.onBreak), b, n)
               [] n.t = "Continue" ->
                    IF ~lp.set THEN [g EXCEPT !.panicked = TRUE]
                    ELSE newstmt(newsucc(g, b, lp.onContinue), b, n)
               [] OTHER -> form(newstmt(g, b, n), b, rp, lp, rest)

form(g, b, rp, lp, left) ==
    IF g.panicked THEN g
    ELSE IF left = <<>> THEN newsucc(g, b, rp)
    ELSE LET n == Head(left)
             rest == Tail(left)
         IN  CASE n.t = "If" -> newif(g, b, n, rp, lp, rest)
               [] n.t = "For" -> newfor(newstmt(g, b, n.Init), b, n, rp, rest)
               [] n.t = "While" -> newwhile(g, b, n, rp, rest)
               [] n.t = "Return" ->
                    newsucc(newstmt(g, b, n), b,
                            branchParent(BLOCKID_EXIT, n, "BK_ALWAYS"))
               [] n.t = "Break" ->
                    IF ~lp.set THEN [g EXCEPT !.panicked = TRUE]
                    ELSE newstmt(newsucc(g, b, lp.onBreak), b, n)
               [] n.t = "Continue" ->
                    IF ~lp.set THEN [g EXCEPT !.panicked = TRUE]
                    ELSE newstmt(newsucc(g, b, lp.onContinue), b, n)
               [] OTHER -> form(newstmt(g, b, n), b, rp, lp, rest)

FormBackToStart(fd) ==
    LET g1 == newblock(NewGraph)
        second == g1.blockid
        g2 == newsucc(g1, BLOCKID_ENTRY, branchParent(second, Nil, "BK_ALWAYS"))
    IN  form(g2, second, branchParent(second, Nil, "BK_ALWAYS"), NilLoop,
             fd.Body.Value)

\* Form: the result's first block is ENTRY, its successor the block of the
\* function body.
Form(fd) ==
    LET g1 == newblock(NewGraph)
        second == g1.blockid
        g2 == newsucc(g1, BLOCKID_ENTRY, branchParent(second, Nil, "BK_ALWAYS"))
    IN  form(g2, second, branchParent(BLOCKID_EXIT, Nil, "BK_ALWAYS"), NilLoop,
             fd.Body.Value)

(***************************************************************************)
(* package cfg: Connect.  A NodeCb is modelled by the number its matcher   *)
(* looks for (matchernum of the package's tests); NilCb is the nil         *)
(* callback.  mem is the set of the ids of the branches seen.              *)
(***************************************************************************)
NilCb == -1

\* matchernum(cb)(n)
matchernum(cb, n) == n.t = "Numeric" /\ n.Value = cb

\* nodeinblock: the 1-based index of the first match after index i, or -1
nodeinblock(cb, i, stmts) ==
    IF \E j \in (i + 1)..Len(stmts) : matchernum(cb, stmts[j])
    THEN CHOOSE j \in (i + 1)..Len(stmts) :
             /\ matchernum(cb, stmts[j])
             /\ \A k \in (i + 1)..(j - 1) : ~matchernum(cb, stmts[k])
    ELSE -1

nodesinblock(start, end, stmts) ==
    [istart |-> nodeinblock(start, 0, stmts),
     iend |-> nodeinblock(end, Max(nodeinblock(start, 0, stmts), 0), stmts)]

RECURSIVE connect(_, _, _, _, _)

RECURSIVE connectSuccs(_, _, _, _, _, _)

\* the loop of connect over the successors from index i on
connectSuccs(g, start, end, succs, i, mem) ==
    IF i > Len(succs) THEN [res |-> FALSE, mem |-> mem]
    ELSE IF succs[i].Id \in mem THEN connectSuccs(g, start, end, succs, i + 1, mem)
    ELSE LET r == connect(g, start, end, succs[i].To, mem \cup {succs[i].Id})
         IN  IF r.res THEN r ELSE connectSuccs(g, start, end, succs, i + 1, r.mem)

\* connect: the answer and the branches seen
connect(g, start, end, b, mem) ==
    LET stmts == g.blocks[b].Stmts
        succs == g.blocks[b].Successors
        found == nodesinblock(start, end, stmts)
    IN  IF start = NilCb
        THEN IF nodeinblock(end, 0, stmts) > -1 THEN [res |-> TRUE, mem |-> mem]
             ELSE connectSuccs(g, NilCb, end, succs, 1, mem)
        ELSE CASE found.istart > -1 /\ found.iend > -1 -> [res |-> TRUE, mem |-> mem]
               [] found.istart > -1 /\ found.iend = -1 ->
                      connectSuccs(g, NilCb, end, succs, 1, mem)
               [] found.istart = -1 /\ found.iend > -1 -> [res |-> FALSE, mem |-> mem]
               [] OTHER -> connectSuccs(g, start, end, succs, 1, mem)

\* Connect; end is never nil here
Connect(g, start, end) == connect(g, start, end, BLOCKID_ENTRY, {}).res

NoConnect == [called |-> FALSE, start |-> NilCb, end |-> NilCb, res |-> FALSE]

(***************************************************************************)
(* package ir and package ssa.  The SSA state is the record of the SSA     *)
(* struct's fields; a panic of the Go code sets panicked and stops the     *)
(* emission.                                                               *)
(***************************************************************************)
IrVariable(name, count) == [Name |-> name, Count |-> count]

Numeric32i(value) == [Value |-> value]

NewSSA == [reggen |-> 0, generations |-> [n \in {} |-> 0], Instructions |-> <<>>,
           panicked |-> FALSE]

ssaPanic(s) == [s EXCEPT !.panicked = TRUE]

emit(s, inst) == [s EXCEPT !.Instructions = Append(@, inst)]

registerNew(s) == [s EXCEPT !.reggen = @ + 1]

register(s) == IrVariable("", s.reggen)

increase(g, name) ==
    IF name \notin DOMAIN g THEN (name :> 0) @@ g ELSE [g EXCEPT ![name] = @ + 1]

\* getNewVariable: the new variable is getCurrentVariable of the result
getNewVariable(s, name) ==
    LET g == increase(s.generations, name)
    IN  emit([s EXCEPT !.generations = g],
             [op |-> "Alloca", To |-> IrVariable(name, g[name])])

getCurrentVariable(s, name) == IrVariable(name, s.generations[name])

getNumeric32i(s, n) ==
    LET s1 == registerNew(s)
    IN  emit(s1, [op |-> "Mov", What |-> Numeric32i(n.Value), To |-> register(s1)])

RECURSIVE emitLoadable(_, _)

RECURSIVE emitOpBinary(_, _)

\* An emitOpBinary that names the left operand's register only after the
\* right operand has been emitted.
emitOpBinaryLateLeft(s, n) ==
    LET s1 == emitLoadable(s, n.Left)
        s2 == emitLoadable(s1, n.Right)
        left == register(s2)
        right == register(s2)
        s3 == registerNew(s2)
        to == register(s3)
    IN  IF s1.panicked THEN s1
        ELSE IF s2.panicked THEN s2
        ELSE CASE n.Op = "OPBIN_ADD" ->
                    emit(s3, [op |-> "Add", To |-> to, Left |-> left, Right |-> right])
               [] n.Op = "OPBIN_MUL" ->
                    emit(s3, [op |-> "Mul", To |-> to, Left |-> left, Right |-> right])
               [] OTHER -> s3

emitOpBinary(s, n) ==
    LET s1 == emitLoadable(s, n.Left)
        left == register(s1)
        s2 == emitLoadable(s1, n.Right)
        right == register(s2)
        s3 == registerNew(s2)
        to == register(s3)
    IN  IF s1.panicked THEN s1
        ELSE IF s2.panicked THEN s2
        ELSE CASE n.Op = "OPBIN_ADD" ->
                    emit(s3, [op |-> "Add", To |-> to, Left |-> left, Right |-> right])
               [] n.Op = "OPBIN_MUL" ->
                    emit(s3, [op |-> "Mul", To |-> to, Left |-> left, Right |-> right])
               [] OTHER -> s3

emitLoadable(s, n) ==
    CASE n.t = "Variable" ->
            IF n.Value \notin DOMAIN s.generations THEN ssaPanic(s)
            ELSE LET s1 == registerNew(s)
                 IN  emit(s1, [op |-> "Load", From |-> getCurrentVariable(s, n.Value),
                               To |-> register(s1)])
      [] n.t = "VarDecl" ->
            LET s1 == getNewVariable(s, n.Name)
                s2 == registerNew(s1)
            IN  emit(s2, [op |-> "Load", From |-> getCurrentVariable(s1, n.Name),
                          To |-> register(s2)])
      [] n.t = "Numeric" -> getNumeric32i(s, n)
      [] n.t = "OpBinary" -> emitOpBinary(s, n)
      [] OTHER -> ssaPanic(s)

emitReturn(s, n) ==
    LET s1 == emitLoadable(s, n.Expr)
    IN  IF s1.panicked THEN s1
        ELSE emit(s1, [op |-> "Return", With |-> register(s1)])

\* getNewStorable: the storable is getCurrentVariable of the result
getNewStorable(s, n) ==
    CASE n.t = "Variable" ->
            IF n.Value \notin DOMAIN s.generations THEN ssaPanic(s) ELSE s
      [] n.t = "VarDecl" -> getNewVariable(s, n.Name)
      [] OTHER -> ssaPanic(s)

emitAssign(s, n) ==
    LET s1 == getNewStorable(s, n.To)
        to == getCurrentVariable(s1, IF n.To.t = "Variable" THEN n.To.Value
                                     ELSE n.To.Name)
        s2 == emitLoadable(s1, n.What)
    IN  IF s1.panicked THEN s1
        ELSE IF s2.panicked THEN s2
        ELSE emit(s2, [op |-> "Store", From |-> register(s2), To |-> to])

RECURSIVE emitNode(_, _)

emitOpUnary(s, n) == emitNode(s, n.To)

emitNode(s, n) ==
    CASE n.t = "OpAssign" -> emitAssign(s, n)
      [] n.t = "OpBinary" -> emitOpBinary(s, n)
      [] n.t = "OpUnary" -> emitOpUnary(s, n)
      [] n.t = "Return" -> emitReturn(s, n)
      [] OTHER -> ssaPanic(s)

RECURSIVE emitStmts(_, _)

emitStmts(s, stmts) ==
    IF s.panicked \/ stmts = <<>> THEN s
    ELSE emitStmts(emitNode(s, Head(stmts)), Tail(stmts))

RECURSIVE emitBlock(_, _, _)

RECURSIVE emitSuccessors(_, _, _)

emitSuccessors(s, g, succs) ==
    IF s.panicked \/ succs = <<>> THEN s
    ELSE emitSuccessors(emitBlock(s, g, Head(succs).To), g, Tail(succs))

emitBlock(s, g, bb) ==
    emitSuccessors(emitStmts(s, g.blocks[bb].Stmts), g, g.blocks[bb].Successors)

build(s, g) == emitBlock(emit(s, [op |-> "Label", Name |-> "entry"]), g, BLOCKID_ENTRY)

SsaNew(g) == build(NewSSA, g)

(***************************************************************************)
(* package vm.  Registers are a map from ir.Variable to int32 in which a   *)
(* missing key reads as 0; memory is a sequence of int32 indexed from 0.   *)
(* Go's int32 + and * wrap around.                                         *)
(***************************************************************************)
MaxInt32 == 2147483647

MinInt32 == (-2147483647) - 1

\* v1 + v2 on int32
AddInt32(v1, v2) ==
    IF v1 >= 0 /\ v2 > 0 /\ v1 > MaxInt32 - v2 THEN (v1 + MinInt32) + (v2 + MinInt32)
    ELSE IF v1 < 0 /\ v2 < 0 /\ v1 < MinInt32 - v2 THEN (v1 - MinInt32) + (v2 - MinInt32)
    ELSE v1 + v2

RECURSIVE MulNat32(_, _)

MulNat32(v1, n) ==
    IF n = 0 THEN 0
    ELSE AddInt32(IF n % 2 = 1 THEN v1 ELSE 0, MulNat32(AddInt32(v1, v1), n \div 2))

\* v1 * v2 on int32
MulInt32(v1, v2) ==
    IF v2 >= 0 THEN MulNat32(v1, v2)
    ELSE AddInt32(MulNat32(v1, v2 - MinInt32), IF v1 % 2 = 1 THEN MinInt32 ELSE 0)

NewVM == [regs |-> [v \in {} |-> 0], mem |-> <<>>, ret |-> 0, panicked |-> FALSE]

reg(m, v) == IF v \in DOMAIN m.regs THEN m.regs[v] ELSE 0

setReg(m, to, val) == [m EXCEPT !.regs = (to :> val) @@ @]

inMem(m, i) == i >= 0 /\ i < Len(m.mem)

Load(m, from, to) ==
    LET fi == reg(m, from)
    IN  IF inMem(m, fi) THEN setReg(m, to, m.mem[fi + 1])
        ELSE [m EXCEPT !.panicked = TRUE]

ExtractValue(m, v) == IF "Name" \in DOMAIN v THEN reg(m, v) ELSE v.Value

Set(m, to, what) == setReg(m, to, ExtractValue(m, what))

Store(m, variable, value) ==
    LET ptr == reg(m, variable)
    IN  IF inMem(m, ptr) THEN [m EXCEPT !.mem[ptr + 1] = reg(m, value)]
        ELSE [m EXCEPT !.panicked = TRUE]

Alloca(m, to) == setReg([m EXCEPT !.mem = Append(@, 0)], to, Len(m.mem))

RunInst(m, inst) ==
    CASE inst.op = "Alloca" -> Alloca(m, inst.To)
      [] inst.op = "Mov" -> Set(m, inst.To, inst.What)
      [] inst.op = "Store" -> Store(m, inst.To, inst.From)
      [] inst.op = "Load" -> Load(m, inst.From, inst.To)
      [] inst.op = "Add" ->
            setReg(m, inst.To, AddInt32(ExtractValue(m, inst.Left),
                                        ExtractValue(m, inst.Right)))
      [] inst.op = "Mul" ->
            setReg(m, inst.To, MulInt32(ExtractValue(m, inst.Left),
                                        ExtractValue(m, inst.Right)))
      [] inst.op = "Return" -> [m EXCEPT !.ret = ExtractValue(m, inst.With)]
      [] inst.op = "Label" -> m
      [] OTHER -> [m EXCEPT !.panicked = TRUE]

RECURSIVE RunFrom(_, _)

RunFrom(m, insts) ==
    IF m.panicked \/ insts = <<>> THEN m
    ELSE RunFrom(RunInst(m, Head(insts)), Tail(insts))

Run(insts) == RunFrom(NewVM, insts)

(***************************************************************************)
(* The straight-line int functions of TestSimple's kind: declarations with *)
(* initialisers, re-assignments of declared variables, one final return,   *)
(* expressions over literals, declared variables, + and *.                 *)
(***************************************************************************)
MaxStmts == 2

MaxDepth == 1

VarNames == <<"a", "b">>

Literals == {2, MaxInt32}

BinOps == {"OPBIN_ADD", "OPBIN_MUL"}

Atoms(nv) == {Numeric(v) : v \in Literals} \cup {Variable(VarNames[i]) : i \in 1..nv}

RECURSIVE Exprs(_, _)

Exprs(nv, d) ==
    IF d = 0 THEN Atoms(nv)
    ELSE Atoms(nv) \cup
         {OpBinary(o, l, r) : o \in BinOps, l \in Exprs(nv, d - 1), r \in Atoms(nv)}

RECURSIVE Bodies(_, _)

Bodies(nv, k) ==
    {<<Return(e)>> : e \in Exprs(nv, MaxDepth)} \cup
    (IF k = 0 THEN {}
     ELSE (IF nv < Len(VarNames)
           THEN {<<OpAssign("OPASN_PLAIN", VarDecl(KindInt, VarNames[nv + 1]), e)>> \o r :
                    e \in Exprs(nv, MaxDepth), r \in Bodies(nv + 1, k - 1)}
           ELSE {}) \cup
          {<<OpAssign("OPASN_PLAIN", Variable(VarNames[i]), e)>> \o r :
               i \in 1..nv, e \in Exprs(nv, MaxDepth), r \in Bodies(nv, k - 1)})

\* int f(){ int a=1; int b=a+3; a=a*2+b; return a+1; }
TestSimple ==
    FunDef("f", KindInt, <<>>, Block(<<
        OpAssign("OPASN_PLAIN", VarDecl(KindInt, "a"), Numeric(1)),
        OpAssign("OPASN_PLAIN", VarDecl(KindInt, "b"),
                 OpBinary("OPBIN_ADD", Variable("a"), Numeric(3))),
        OpAssign("OPASN_PLAIN", Variable("a"),
                 OpBinary("OPBIN_ADD",
                          OpBinary("OPBIN_MUL", Variable("a"), Numeric(2)),
                          Variable("b"))),
        Return(OpBinary("OPBIN_ADD", Variable("a"), Numeric(1)))>>))

Programs ==
    {FunDef("f", KindInt, <<>>, Block(b)) : b \in Bodies(0, MaxStmts)} \cup {TestSimple}

\* The value the source program computes: expressions in an environment of
\* int32 variables.
RECURSIVE Eval(_, _)

Eval(env, e) ==
    CASE e.t = "Numeric" -> e.Value
      [] e.t = "Variable" -> env[e.Value]
      [] e.t = "OpBinary" /\ e.Op = "OPBIN_ADD" ->
            AddInt32(Eval(env, e.Left), Eval(env, e.Right))
      [] e.t = "OpBinary" /\ e.Op = "OPBIN_MUL" ->
            MulInt32(Eval(env, e.Left), Eval(env, e.Right))

RECURSIVE Exec(_, _)

Exec(env, stmts) ==
    LET st == Head(stmts)
    IN  IF st.t = "Return" THEN Eval(env, st.Expr)
        ELSE LET name == IF st.To.t = "VarDecl" THEN st.To.Name ELSE st.To.Value
             IN  Exec((name :> Eval(env, st.What)) @@ env, Tail(stmts))

SourceValue(fd) == Exec([n \in {} |-> 0], fd.Body.Value)



\* cfg.Form and ssa.New on the function definition
DoSsaNew ==
    /\ spc = "parsed"
    /\ ssa' = SsaNew(Form(prog))
    /\ spc' = "built"
    /\ UNCHANGED <<prog, vm, typeVars, scopeVars, anVars, cfgVars, tokVars, parseVars>>

\* vm.New, Insert and Run on the instruction list
DoVmRun ==
    /\ spc = "built"
    /\ ~ssa.panicked
    /\ vm' = Run(ssa.Instructions)
    /\ spc' = "ran"
    /\ UNCHANGED <<prog, ssa, typeVars, scopeVars, anVars, cfgVars, tokVars, parseVars>>



(***************************************************************************)
(* package analyze.  A node's id is its path in the forest: the index of   *)
(* its top-level node followed by the child indexes of Children.  The      *)
(* Analyzer is the record of the struct's fields; res.Functions holds each *)
(* *types.Function with the serial number of its allocation, which is what *)
(* the returns map is keyed by.  A panic sets panicked and ends the pass.  *)
(***************************************************************************)
Children(n) ==
    CASE n.t \in {"OpUnary"} -> <<n.To>>
      [] n.t = "OpBinary" -> <<n.Left, n.Right>>
      [] n.t = "OpAssign" -> <<n.To, n.What>>
      [] n.t \in {"VarDecl", "Alloc", "Typedef"} -> <<n.Kind>>
      [] n.t = "AllocArray" -> <<n.Kind, n.N>>
      [] n.t = "Cast" -> <<n.To, n.What>>
      [] n.t \in {"Block", "Args"} -> n.Value
      [] n.t = "If" -> <<n.Cond, n.True, n.False>>
      [] n.t = "While" -> <<n.Cond, n.Body>>
      [] n.t = "For" -> <<n.Init, n.Cond, n.OnEach, n.Body>>
      [] n.t \in {"Return", "Assert", "Error"} -> <<n.Expr>>
      [] n.t \in {"FunDecl", "TypedefFunc"} -> <<n.Returns>> \o n.Params
      [] n.t = "FunDef" -> <<n.Returns>> \o n.Params \o <<n.Body>>
      [] n.t = "Struct" -> n.Members
      [] OTHER -> <<>>

\* The paths of the parameters of a declaration and of a kind below a node
ParamPaths(n, p) == [i \in 1..Len(n.Params) |-> p \o <<i + 1>>]

KindPath(p) == p \o <<1>>

NilFunc == [ptr |-> 0, fn |-> NilExtra]

\* reset
reset ==
    [errs |-> <<>>, scope |-> newScope(<<>>),
     Functions |-> [x \in {} |-> NilFunc], Typedefs |-> EmptyMap,
     TypedefFuncs |-> [x \in {} |-> NilExtra], Structs |-> [x \in {} |-> NilExtra],
     StructFwds |-> {}, NodeTypes |-> [x \in {} |-> NilType],
     canassign |-> {}, ternaryvals |-> [x \in {} |-> 0],
     structaccess |-> [x \in {} |-> NilExtra], returns |-> [x \in {} |-> 0],
     loops |-> <<>>, curfunc |-> NilFunc, nextptr |-> 1, panicked |-> FALSE]

panic(s) == [s EXCEPT !.panicked = TRUE]

errorf(s, p, e) == [s EXCEPT !.errs = Append(@, [err |-> e, at |-> p])]

setAssignable(s, p) ==
    IF p \in s.canassign THEN panic(s) ELSE [s EXCEPT !.canassign = @ \cup {p}]

isAssignable(s, p) == p \in s.canassign

setStructAccess(s, p, st) ==
    IF st = NilExtra THEN s ELSE [s EXCEPT !.structaccess = (p :> st) @@ @]

getStructAccess(s, p) ==
    IF p \in DOMAIN s.structaccess THEN s.structaccess[p] ELSE NilExtra

setType(s, p, k) ==
    IF p \in DOMAIN s.NodeTypes THEN panic(s)
    ELSE [s EXCEPT !.NodeTypes = (p :> k) @@ @]

getType(s, p) == IF p \in DOMAIN s.NodeTypes THEN s.NodeTypes[p] ELSE NilType

getFunction(s, name) ==
    IF name \in DOMAIN s.Functions THEN s.Functions[name] ELSE NilFunc

kinds_to_types(k) ==
    CASE k = "KIND_INT" -> "TYPE_INT"
      [] k = "KIND_BOOL" -> "TYPE_BOOL"
      [] k = "KIND_STRING" -> "TYPE_STRING"
      [] k = "KIND_STRUCT" -> "TYPE_STRUCT"
      [] k = "KIND_VOID" -> "TYPE_VOID"
      [] k = "KIND_CHAR" -> "TYPE_CHAR"

\* KindToType: the result is the analyzer and the type, NilType on an error
KindToType(s, k, kp) ==
    CASE k.Kind = "KIND_TYPEDEF" ->
            IF k.Name = "" THEN [s |-> panic(s), t |-> NilType]
            ELSE IF k.Name \in DOMAIN s.Typedefs
            THEN LET td == s.Typedefs[k.Name]
                 IN  [s |-> s,
                      t |-> [Type |-> td.Type,
                             PointerLevel |-> k.PointerLevel + td.PointerLevel,
                             ArrayLevel |-> k.ArrayLevel + td.ArrayLevel,
                             Extra |-> td.Extra]]
            ELSE IF k.Name \in DOMAIN s.TypedefFuncs
            THEN [s |-> s,
                  t |-> NewTypeExtra("TYPE_FUNC", k.PointerLevel, k.ArrayLevel,
                                     s.TypedefFuncs[k.Name])]
            ELSE [s |-> errorf(s, kp, "ErrTypeUnrecognizedTypedef"), t |-> NilType]
      [] k.Kind = "KIND_STRUCT" ->
            IF k.Name = "" THEN [s |-> panic(s), t |-> NilType]
            ELSE IF k.Name \in DOMAIN s.Structs
            THEN [s |-> s,
                  t |-> NewTypeExtra("TYPE_STRUCT", k.PointerLevel, k.ArrayLevel,
                                     s.Structs[k.Name])]
            ELSE IF k.Name \in s.StructFwds
            THEN [s |-> s,
                  t |-> NewTypeExtra("TYPE_STRUCT_FWD", k.PointerLevel,
                                     k.ArrayLevel, StructForward(k.Name))]
            ELSE [s |-> errorf(s, kp, "ErrTypeUnrecognizedStruct"), t |-> NilType]
      [] OTHER ->
            [s |-> s, t |-> NewType(kinds_to_types(k.Kind), k.PointerLevel, k.ArrayLevel)]

RECURSIVE StructFieldsFromVarDecls(_, _, _, _, _)

\* StructFieldsFromVarDecls from member i on, ret the fields so far; err names
\* the returned error, "" for none
StructFieldsFromVarDecls(s, vds, pp, i, ret) ==
    IF i > Len(vds) THEN [s |-> s, fields |-> ret, err |-> ""]
    ELSE LET r == KindToType(s, vds[i].Kind, KindPath(pp[i]))
         IN  IF r.t = NilType
             THEN [s |-> r.s, fields |-> ret,
                   err |-> IF r.s.panicked THEN "panic" ELSE r.s.errs[Len(r.s.errs)].err]
             ELSE IF r.t.Type = "TYPE_STRUCT_FWD" /\ r.t.PointerLevel = 0
             THEN [s |-> r.s, fields |-> ret, err |-> "ErrStructSizeUnknown"]
             ELSE StructFieldsFromVarDecls(r.s, vds, pp, i + 1,
                                           Append(ret, StructField(vds[i].Name, r.t)))

RECURSIVE TypesFromVarDecls(_, _, _, _, _)

TypesFromVarDecls(s, vds, pp, i, ret) ==
    IF i > Len(vds) THEN [s |-> s, types |-> ret, err |-> ""]
    ELSE LET r == KindToType(s, vds[i].Kind, KindPath(pp[i]))
         IN  IF r.t = NilType
             THEN [s |-> r.s, types |-> ret,
                   err |-> IF r.s.panicked THEN "panic" ELSE r.s.errs[Len(r.s.errs)].err]
             ELSE TypesFromVarDecls(r.s, vds, pp, i + 1, Append(ret, r.t))

\* FunctionFromNodeFunDecl: the parameters first, then the return kind
FunctionFromNodeFunDecl(s, n, p) ==
    LET ts == TypesFromVarDecls(s, n.Params, ParamPaths(n, p), 1, <<>>)
        r == KindToType(ts.s, n.Returns, KindPath(p))
    IN  IF ts.err # "" THEN [s |-> ts.s, f |-> NilExtra, err |-> ts.err]
        ELSE IF r.t = NilType
        THEN [s |-> r.s, f |-> NilExtra,
              err |-> IF r.s.panicked THEN "panic" ELSE r.s.errs[Len(r.s.errs)].err]
        ELSE [s |-> r.s, f |-> Function(r.t, ts.types), err |-> ""]

\* FunctionFromNodeTypedefFunc: the return kind first, then the parameters
FunctionFromNodeTypedefFunc(s, n, p) ==
    LET r == KindToType(s, n.Returns, KindPath(p))
        ts == TypesFromVarDecls(r.s, n.Params, ParamPaths(n, p), 1, <<>>)
    IN  IF r.t = NilType
        THEN [s |-> r.s, f |-> NilExtra,
              err |-> IF r.s.panicked THEN "panic" ELSE r.s.errs[Len(r.s.errs)].err]
        ELSE IF ts.err # "" THEN [s |-> ts.s, f |-> NilExtra, err |-> ts.err]
        ELSE [s |-> ts.s, f |-> Function(r.t, ts.types), err |-> ""]

Matches(k, k2) == TypeMatches(k, k2) = "true"

\* a Matches call that does not return: a nil operand or a failed assertion
Aborts(k, k2) == TypeMatches(k, k2) = "panic"

setFunction(s, n, p) ==
    LET r == FunctionFromNodeFunDecl(s, n, p)
        m == FunctionMatches(r.s.Functions[n.Name].fn, r.f)
    IN  IF r.err # "" THEN [s |-> r.s, err |-> r.err]
        ELSE IF n.Name \in DOMAIN r.s.Functions /\ m = "panic"
        THEN [s |-> panic(r.s), err |-> "panic"]
        ELSE IF n.Name \in DOMAIN r.s.Functions /\ m # "true"
        THEN [s |-> r.s, err |-> "ErrFuncDifferentType"]
        ELSE [s |-> [r.s EXCEPT !.Functions =
                                    (n.Name :> [ptr |-> r.s.nextptr, fn |-> r.f]) @@ @,
                                !.nextptr = @ + 1],
              err |-> ""]

addTypedef(s, n, p) ==
    LET r == KindToType(s, n.Kind, KindPath(p))
    IN  IF n.Name \in DOMAIN s.Typedefs
        THEN [s |-> s, err |-> "ErrTypedefAlreadyDefined"]
        ELSE IF r.t = NilType
        THEN [s |-> r.s,
              err |-> IF r.s.panicked THEN "panic" ELSE r.s.errs[Len(r.s.errs)].err]
        ELSE [s |-> [r.s EXCEPT !.Typedefs = (n.Name :> r.t) @@ @], err |-> ""]

addTypedefFunc(s, n, p) ==
    LET r == FunctionFromNodeTypedefFunc(s, n, p)
    IN  IF n.Name \in DOMAIN s.TypedefFuncs
        THEN [s |-> s, err |-> "ErrTypedefAlreadyDefined"]
        ELSE IF r.err # "" THEN [s |-> r.s, err |-> r.err]
        ELSE [s |-> [r.s EXCEPT !.TypedefFuncs = (n.Name :> r.f) @@ @], err |-> ""]

\* StructFromNode
StructFromNode(s, n, p) ==
    StructFieldsFromVarDecls(s, n.Members, [i \in 1..Len(n.Members) |-> p \o <<i>>],
                             1, <<>>)

addStruct(s, n, p) ==
    LET r == StructFromNode(s, n, p)
    IN  IF n.Name \in DOMAIN s.Structs
        THEN [s |-> s, err |-> "ErrStructAlreadyDefined"]
        ELSE IF r.err # "" THEN [s |-> r.s, err |-> r.err]
        ELSE [s |-> [r.s EXCEPT !.Structs = (n.Name :> Struct(n.Name, r.fields)) @@ @],
              err |-> ""]

setStructFwd(s, n) == [s EXCEPT !.StructFwds = @ \cup {n.Value}]

\* errorf(n, "%w", err) after a failed add or set; a panic is not an error
reportErr(r, p) ==
    IF r.err = "" \/ r.s.panicked THEN r.s ELSE errorf(r.s, p, r.err)

checkTernaryCond(s, n, p) ==
    LET k == getType(s, p \o <<1>>)
        s1 == IF ~Matches(k, typeBool) THEN errorf(s, p, "ErrTernaryCondBool") ELSE s
        tv == n.Right
    IN  IF k = NilType THEN s
        ELSE IF tv.t # "OpBinary" THEN errorf(s1, p, "ErrTernaryMissingValue")
        ELSE IF tv.Op # "OPBIN_TERNARYVALS"
        THEN errorf(s1, p, "ErrTernaryMissingValue")
        ELSE IF p \o <<2>> \notin DOMAIN s1.ternaryvals
        THEN errorf(s1, p \o <<2>>, "ErrTernaryMissingValue")
        ELSE [s1 EXCEPT !.ternaryvals[p \o <<2>>] = @ + 1]

MarkTernaryVal(s, p) == [s EXCEPT !.ternaryvals = (p :> 1) @@ @]

checkArraySub(s, b, p) ==
    LET tl == getType(s, p \o <<1>>)
        tr == getType(s, p \o <<2>>)
        s1 == IF tl.ArrayLevel < 1 \/ tl.PointerLevel # 0
              THEN errorf(s, p \o <<1>>, "ErrArraySubNotArray") ELSE s
        s2 == IF ~Matches(tr, typeInt)
              THEN errorf(s1, p \o <<2>>, "ErrArraySubNotInt") ELSE s1
        s3 == setType(s2, p, DecArray(tl))
        s4 == IF s3.panicked THEN s3 ELSE setAssignable(s3, p)
        st == getStructAccess(s, p \o <<1>>)
    IN  IF tl = NilType THEN errorf(s, p, "ErrArraySubBadExpr")
        ELSE IF tr = NilType THEN errorf(s1, p, "ErrArraySubBadExpr")
        ELSE IF tl.ArrayLevel = 0 THEN errorf(s2, p \o <<1>>, "ErrArraySubNotArray")
        ELSE IF s4.panicked THEN s4
        ELSE setStructAccess(s4, p, st)

checkComp(s, b, p) ==
    LET s1 == setType(s, p, typeBool)
        kl == getType(s1, p \o <<1>>)
        kr == getType(s1, p \o <<2>>)
    IN  IF s1.panicked \/ kl = NilType \/ kr = NilType THEN s1
        ELSE IF Aborts(kl, kr) THEN panic(s1)
        ELSE IF ~Matches(kl, kr) \/ ~(Matches(kl, typeInt) \/ Matches(kl, typeChar))
        THEN errorf(s1, p \o <<1>>, "ErrCompareNonInteger")
        ELSE s1

checkArith(s, b, p) ==
    LET kl == getType(s, p \o <<1>>)
        kr == getType(s, p \o <<2>>)
    IN  IF kl = NilType \/ kr = NilType THEN s
        ELSE IF Aborts(kl, kr) THEN panic(s)
        ELSE IF ~Matches(kl, kr) \/ ~Matches(kr, typeInt)
        THEN errorf(s, p \o <<1>>, "ErrArithNonInteger")
        ELSE setType(s, p, kl)

checkAtom(s, p, k) == setType(s, p, NewType(k, 0, 0))

checkAssign(s, n, p) ==
    LET kt == getType(s, p \o <<1>>)
        kw == getType(s, p \o <<2>>)
        s1 == IF ~Matches(kt, kw) /\ ~(kt.PointerLevel > 0 /\ kw.Type = "TYPE_NULL")
              THEN errorf(s, p, "ErrAssignTypeMismatch") ELSE s
    IN  IF ~isAssignable(s, p \o <<1>>) THEN errorf(s, p \o <<1>>, "ErrAssignNotLValue")
        ELSE IF n.What = Nil THEN s
        ELSE IF kt = NilType \/ kw = NilType THEN s
        ELSE IF Aborts(kt, kw) THEN panic(s)
        ELSE setType(s1, p, kt)

\* StructFields.Find: the type of the first field of that name, or NilType
Find(fields, name) ==
    IF \E i \in 1..Len(fields) : fields[i].Name = name
    THEN fields[CHOOSE i \in 1..Len(fields) :
                    /\ fields[i].Name = name
                    /\ \A j \in 1..(i - 1) : fields[j].Name # name].Type
    ELSE NilType

\* getStructFieldType: the analyzer and the field's type
getStructFieldType(s, n, p, st) ==
    IF st = NilExtra THEN [s |-> s, t |-> NilType]
    ELSE IF Find(st.Fields, n.Value) = NilType
    THEN [s |-> errorf(s, p, "ErrStructDecFieldNotFound"), t |-> NilType]
    ELSE [s |-> s, t |-> Find(st.Fields, n.Value)]

checkVariable(s, n, p) ==
    LET fd == getFunction(s, n.Value)
        t == scopeGet(s.scope, n.Value)
        s1 == setType(s, p, t)
        s2 == IF t.Type = "TYPE_STRUCT" THEN setStructAccess(s1, p, t.Extra) ELSE s1
    IN  IF fd # NilFunc THEN setType(s, p, NewTypeExtra("TYPE_FUNC", 0, 0, fd.fn))
        ELSE IF t = NilType THEN errorf(s, p, "ErrVarNotDefined")
        ELSE IF s1.panicked THEN s1
        ELSE setAssignable(s2, p)

\* isNameShadowed: the analyzer and the answer
isNameShadowed(s, p, name) ==
    IF getFunction(s, name) # NilFunc
    THEN [s |-> errorf(s, p, "ErrVarDeclShadowsFunction"), shadowed |-> TRUE]
    ELSE IF name \in DOMAIN s.Typedefs \/ name \in DOMAIN s.TypedefFuncs
    THEN [s |-> errorf(s, p, "ErrVarDeclShadowsTypedef"), shadowed |-> TRUE]
    ELSE [s |-> s, shadowed |-> FALSE]

checkVarDecl(s, n, p) ==
    LET sh == isNameShadowed(s, p, n.Name)
        r == KindToType(s, n.Kind, KindPath(p))
        a == scopeAdd(r.s.scope, n.Name, r.t)
        s1 == [r.s EXCEPT !.scope = a.chain]
        s2 == setType(s1, p, r.t)
    IN  IF sh.shadowed THEN sh.s
        ELSE IF r.t = NilType THEN r.s
        ELSE IF a.err THEN errorf(r.s, p, "variable has already been defined")
        ELSE IF r.t.Type = "TYPE_VOID" /\ r.t.PointerLevel = 0
        THEN errorf(s1, p, "ErrVarDeclVoid")
        ELSE IF r.t.Type = "TYPE_STRUCT_FWD" /\ r.t.PointerLevel = 0
        THEN errorf(s1, p, "ErrStructOnlyForward")
        ELSE IF s2.panicked THEN s2
        ELSE setAssignable(s2, p)

RECURSIVE checkFunCallArgs(_, _, _, _, _)

\* the argument loop of checkFunCall: typewant.Matches(typegot) for argument i
checkFunCallArgs(s, want, got, p, i) ==
    IF i > min(Len(got), Len(want)) THEN s
    ELSE LET typegot == getType(s, p \o <<2, i>>)
         IN  IF Aborts(want[i], typegot) THEN panic(s)
             ELSE checkFunCallArgs(
                      IF ~Matches(want[i], typegot)
                      THEN errorf(s, p, "ErrFuncallArgType") ELSE s,
                      want, got, p, i + 1)

checkFunCall(s, n, p) ==
    LET fd == getFunction(s, n.Left.Value)
        ct == getType(s, p \o <<1>>)
        f == IF n.Left.t = "Variable" THEN fd.fn ELSE ct.Extra
        got == n.Right.Value
        s1 == IF Len(got) # Len(f.ParamTypes)
              THEN errorf(s, p, "ErrFuncallArgsAmount") ELSE s
        s2 == checkFunCallArgs(s1, f.ParamTypes, got, p, 1)
    IN  IF n.Left.t = "Variable" /\ fd = NilFunc
        THEN errorf(s, p, "ErrFuncallNotFound")
        ELSE IF n.Left.t # "Variable" /\ ct = NilType THEN s
        ELSE IF n.Left.t # "Variable" /\ ct.Type # "TYPE_FUNC"
        THEN errorf(s, p \o <<1>>, "ErrFuncallWrongPtrType")
        ELSE IF n.Left.t # "Variable" /\ ct.Extra = NilExtra THEN panic(s)
        ELSE IF n.Right.t # "Args" THEN panic(s)
        ELSE IF s2.panicked THEN s2
        ELSE setType(s2, p, f.Returns)

RECURSIVE checkFunDeclParams(_, _, _, _)

\* the parameter loop of checkFunDecl; done is false after an early return
checkFunDeclParams(s, n, p, i) ==
    IF i > Len(n.Params) THEN [s |-> s, done |-> TRUE]
    ELSE LET r == KindToType(s, n.Params[i].Kind, KindPath(ParamPaths(n, p)[i]))
         IN  IF r.t = NilType THEN [s |-> r.s, done |-> FALSE]
             ELSE checkFunDeclParams(
                      IF /\ r.t.ArrayLevel < 1
                         /\ r.t.Type \in {"TYPE_STRUCT", "TYPE_STRUCT_FWD"}
                         /\ r.t.PointerLevel = 0
                      THEN errorf(r.s, ParamPaths(n, p)[i], "ErrFuncParamStruct")
                      ELSE r.s,
                      n, p, i + 1)

checkFunDecl(s, n, p) ==
    LET sh == isNameShadowed(s, p, n.Name)
        ps == checkFunDeclParams(s, n, p, 1)
    IN  IF sh.shadowed THEN sh.s
        ELSE IF ~ps.done THEN ps.s
        ELSE reportErr(setFunction(ps.s, n, p), p)

\* checkCast compares the node kind of the target with types.TYPE_VOID, which
\* is 5, the value of node.KIND_CHAR.
checkCast(s, n, p) ==
    LET kw == getType(s, p \o <<2>>)
        s1 == IF n.To.Kind = "KIND_CHAR" /\ n.To.PointerLevel < 1
              THEN errorf(s, p, "ErrCastVoid") ELSE s
        s2 == IF kw = NilType THEN s1
              ELSE IF n.What.t = "Null" THEN errorf(s1, p, "NULL cannot be cast")
              ELSE IF kw.PointerLevel < 1 /\ n.To.PointerLevel > 0
              THEN errorf(s1, p, "ErrCastVoidPointer")
              ELSE s1
        r == KindToType(s2, n.To, KindPath(p))
    IN  IF r.t = NilType THEN r.s ELSE setType(r.s, p, r.t)

checkUnary(s, n, p) ==
    LET kt == getType(s, p \o <<1>>)
        d1 == setType(s, p, DecPtr(kt))
        d2 == IF ~d1.panicked /\ isAssignable(d1, p \o <<1>>)
              THEN setAssignable(d1, p) ELSE d1
    IN  IF kt = NilType THEN s
        ELSE CASE n.Op = "OPUN_DEREF" ->
                    IF kt.Type = "TYPE_NULL" THEN errorf(s, p, "derefencing NULL")
                    ELSE IF kt.PointerLevel < 1
                    THEN errorf(s, p, "dereferencing non-pointer")
                    ELSE IF d2.panicked THEN d2
                    ELSE setStructAccess(d2, p, getStructAccess(d2, p \o <<1>>))
               [] n.Op = "OPUN_ADDROF" ->
                    setType(IF kt.Type # "TYPE_FUNC"
                            THEN errorf(s, p, "cannot get address of non-function")
                            ELSE s,
                            p, IncPtr(kt))
               [] n.Op = "OPUN_LOGNOT" ->
                    setType(IF ~Matches(kt, typeBool)
                            THEN errorf(s, p, "ErrNegateNonBool") ELSE s,
                            p, kt)
               [] OTHER ->
                    setType(IF ~Matches(kt, typeInt)
                            THEN errorf(s, p, "integer operation") ELSE s,
                            p, kt)

checkEq(s, n, p) ==
    LET s1 == setType(s, p, typeBool)
        kl == getType(s1, p \o <<1>>)
        kr == getType(s1, p \o <<2>>)
        v(k) == Matches(k, typeInt) \/ Matches(k, typeBool) \/ Matches(k, typeChar)
                    \/ k.ArrayLevel > 0
        s2 == IF ~v(kl) \/ ~v(kr) THEN errorf(s1, p, "ErrCompareBadType") ELSE s1
    IN  IF s1.panicked \/ kl = NilType \/ kr = NilType THEN s1
        ELSE IF Aborts(kl, kr) THEN panic(s2)
        ELSE IF ~Matches(kl, kr) THEN errorf(s2, p, "ErrCompareTypes")
        ELSE s2

\* checkCond on the condition at path cp
checkCond(s, cond, cp) ==
    IF cond = Nil THEN s
    ELSE IF getType(s, cp) = NilType THEN panic(s)
    ELSE IF ~Matches(getType(s, cp), typeBool) THEN errorf(s, cp, "ErrCondType")
    ELSE s

checkAllocArray(s, n, p) ==
    LET r == KindToType(s, n.Kind, KindPath(p))
        s1 == setType(r.s, p, IncArray(r.t))
        nt == getType(s1, p \o <<2>>)
    IN  IF r.t = NilType THEN r.s
        ELSE IF s1.panicked THEN s1
        ELSE IF Aborts(nt, typeInt) THEN panic(s1)
        ELSE IF ~Matches(nt, typeInt) THEN errorf(s1, p \o <<2>>, "ErrAllocArrayBadExpr")
        ELSE s1

checkAlloc(s, n, p) ==
    LET r == KindToType(s, n.Kind, KindPath(p))
    IN  IF r.t = NilType THEN r.s ELSE setType(r.s, p, IncPtr(r.t))

currentLoop(s) == IF Len(s.loops) = 0 THEN <<>> ELSE s.loops[Len(s.loops)]

checkBreak(s, p) ==
    IF currentLoop(s) = <<>> THEN errorf(s, p, "ErrBreakOutsideLoop") ELSE s

checkContinue(s, p) ==
    IF currentLoop(s) = <<>> THEN errorf(s, p, "ErrContinueOutsideLoop") ELSE s

checkReturn(s, n, p) ==
    LET cf == s.curfunc
        s1 == [s EXCEPT !.returns =
                   (cf.ptr :> (IF cf.ptr \in DOMAIN @ THEN @[cf.ptr] ELSE 0) + 1) @@ @]
        rt == getType(s1, p \o <<1>>)
    IN  IF cf = NilFunc THEN s
        ELSE IF n.Expr = Nil
        THEN IF ~Matches(cf.fn.Returns, typeVoid)
             THEN errorf(s1, p, "ErrReturnExprMissing") ELSE s1
        ELSE IF rt = NilType THEN s1
        ELSE IF Aborts(cf.fn.Returns, rt) THEN panic(s1)
        ELSE IF ~Matches(cf.fn.Returns, rt) THEN errorf(s1, p, "ErrReturnMistyped")
        ELSE s1

checkStructFieldAccess(s, n, p) ==
    LET explvl == IF n.Op = "OPBIN_STRUCTPTRDEC" THEN 1 ELSE 0
        tl == getType(s, p \o <<1>>)
        s1 == IF tl.PointerLevel # explvl \/ tl.ArrayLevel # 0
              THEN errorf(s, p, "ErrStructBadType") ELSE s
        st == getStructAccess(s1, p \o <<1>>)
        ft == getStructFieldType(s1, n.Right, p \o <<2>>, st)
        s2 == IF ft.t.Type = "TYPE_STRUCT" THEN setStructAccess(ft.s, p, ft.t.Extra)
              ELSE ft.s
        s3 == setType(s2, p, ft.t)
    IN  IF tl = NilType THEN s
        ELSE IF n.Right.t # "Variable" THEN errorf(s1, p \o <<2>>, "ErrStructDecNotField")
        ELSE IF st = NilExtra THEN errorf(s1, p, "ErrStructNotAccessingStruct")
        ELSE IF ft.t = NilType THEN ft.s
        ELSE IF s3.panicked THEN s3
        ELSE setAssignable(s3, p)

checkBinary(s, n, p) ==
    CASE n.Op = "OPBIN_TERNARYCOND" -> checkTernaryCond(s, n, p)
      [] n.Op = "OPBIN_TERNARYVALS" -> MarkTernaryVal(s, p)
      [] n.Op = "OPBIN_ARRSUB" -> checkArraySub(s, n, p)
      [] n.Op \in {"OPBIN_EQ", "OPBIN_NE"} -> checkEq(s, n, p)
      [] n.Op = "OPBIN_FUNCALL" -> checkFunCall(s, n, p)
      [] n.Op \in {"OPBIN_LE", "OPBIN_GE", "OPBIN_LT", "OPBIN_GT"} -> checkComp(s, n, p)
      [] n.Op \in {"OPBIN_BAND", "OPBIN_BOR", "OPBIN_BXOR", "OPBIN_AND", "OPBIN_OR",
                   "OPBIN_SHIFTR", "OPBIN_SHIFTL", "OPBIN_ADD", "OPBIN_SUB",
                   "OPBIN_MUL", "OPBIN_DIV", "OPBIN_MOD"} -> checkArith(s, n, p)
      [] OTHER -> panic(s)

\* withScope, withLoop and withFunction: the state before and after what()
enterScope(s) == [s EXCEPT !.scope = newScope(@)]

\* A withScope that restores the parent scope only when no diagnostic has
\* been recorded.
leaveScopeUnlessErrors(s) ==
    IF s.panicked \/ s.errs # <<>> THEN s ELSE [s EXCEPT !.scope = parentScope(@)]

leaveScope(s) == IF s.panicked THEN s ELSE [s EXCEPT !.scope = parentScope(@)]

enterLoop(s, p) == [s EXCEPT !.loops = Append(@, p)]

leaveLoop(s) ==
    IF s.panicked THEN s ELSE [s EXCEPT !.loops = SubSeq(@, 1, Len(@) - 1)]

RECURSIVE check(_, _, _)

RECURSIVE checkAll(_, _, _, _, _)

\* a(x) for the nodes from index i on, the node at index i having the path
\* p \o <<i + off>>
checkAll(s, nodes, p, off, i) ==
    IF s.panicked \/ i > Len(nodes) THEN s
    ELSE checkAll(check(s, nodes[i], p \o <<i + off>>), nodes, p, off, i + 1)

\* the function passed to withFunction by the FunDef case of check
checkFunDefBody(s, n, p) ==
    LET s1 == check(s, n.Body, p \o <<Len(n.Params) + 2>>)
        cf == s1.curfunc
        count == IF cf.ptr \in DOMAIN s1.returns THEN s1.returns[cf.ptr] ELSE 0
    IN  IF s1.panicked THEN s1
        ELSE IF cf = NilFunc
        THEN panic(errorf(s1, p, "invalid function definition"))
        ELSE IF ~Matches(cf.fn.Returns, typeVoid) /\ count = 0
        THEN errorf(s1, p, "ErrReturnMissing")
        ELSE s1

withFunction(s, n, p) ==
    LET s1 == [s EXCEPT !.curfunc = getFunction(s, n.Name)]
        s2 == checkFunDefBody(s1, n, p)
    IN  IF s1.curfunc = NilFunc THEN errorf(s1, p, "ErrFuncDeclInvalid")
        ELSE IF s2.panicked THEN s2
        ELSE [s2 EXCEPT !.curfunc = NilFunc]

\* a(x) followed by the check of the node itself, unless a(x) panicked
after(s, done) == IF s.panicked THEN s ELSE done

check(s, n, p) ==
    IF s.panicked THEN s
    ELSE
    CASE n.t \in {"nil", "Kind", "DirectiveUse"} -> s
      [] n.t = "Variable" -> checkVariable(s, n, p)
      [] n.t = "Bool" -> checkAtom(s, p, "TYPE_BOOL")
      [] n.t = "StrLit" -> checkAtom(s, p, "TYPE_STRING")
      [] n.t = "ChrLit" -> checkAtom(s, p, "TYPE_CHAR")
      [] n.t = "Numeric" -> checkAtom(s, p, "TYPE_INT")
      [] n.t = "Null" -> checkAtom(s, p, "TYPE_NULL")
      [] n.t = "Struct" -> reportErr(addStruct(s, n, p), p)
      [] n.t = "StructForwardDecl" -> setStructFwd(s, n)
      [] n.t = "Typedef" -> reportErr(addTypedef(s, n, p), p)
      [] n.t = "TypedefFunc" -> reportErr(addTypedefFunc(s, n, p), p)
      [] n.t = "OpUnary" ->
            LET s1 == check(s, n.To, p \o <<1>>)
            IN  after(s1, checkUnary(s1, n, p))
      [] n.t = "OpBinary" ->
            LET s1 == check(s, n.Left, p \o <<1>>)
                s2 == check(s1, n.Right, p \o <<2>>)
            IN  IF n.Op \in {"OPBIN_STRUCTDEC", "OPBIN_STRUCTPTRDEC"}
                THEN after(s1, checkStructFieldAccess(s1, n, p))
                ELSE after(s2, checkBinary(s2, n, p))
      [] n.t = "OpAssign" ->
            LET s1 == check(check(s, n.What, p \o <<2>>), n.To, p \o <<1>>)
            IN  after(s1, checkAssign(s1, n, p))
      [] n.t = "VarDecl" -> checkVarDecl(s, n, p)
      [] n.t = "Args" -> checkAll(s, n.Value, p, 0, 1)
      [] n.t = "FunDecl" ->
            LET s1 == checkAll(enterScope(s), n.Params, p, 1, 1)
            IN  leaveScope(after(s1, checkFunDecl(s1, n, p)))
      [] n.t = "FunDef" ->
            LET s1 == checkAll(enterScope(s), n.Params, p, 1, 1)
                s2 == after(s1, checkFunDecl(s1, n, p))
            IN  leaveScope(after(s2, withFunction(s2, n, p)))
      [] n.t = "Block" -> leaveScope(checkAll(enterScope(s), n.Value, p, 0, 1))
      [] n.t = "If" ->
            LET s1 == checkAll(s, <<n.Cond, n.True, n.False>>, p, 0, 1)
            IN  after(s1, checkCond(s1, n.Cond, p \o <<1>>))
      [] n.t = "For" ->
            LET s1 == checkAll(enterLoop(s, p), <<n.Init, n.Cond, n.OnEach, n.Body>>,
                               p, 0, 1)
            IN  leaveLoop(after(s1, checkCond(s1, n.Cond, p \o <<2>>)))
      [] n.t = "While" ->
            LET s1 == checkAll(enterLoop(s, p), <<n.Cond, n.Body>>, p, 0, 1)
            IN  leaveLoop(after(s1, checkCond(s1, n.Cond, p \o <<1>>)))
      [] n.t = "Return" ->
            LET s1 == check(s, n.Expr, p \o <<1>>)
            IN  after(s1, checkReturn(s1, n, p))
      [] n.t = "Assert" ->
            LET s1 == check(s, n.Expr, p \o <<1>>)
            IN  after(s1, checkCond(s1, n.Expr, p \o <<1>>))
      [] n.t = "Error" -> panic(check(s, n.Expr, p \o <<1>>))
      [] n.t = "Cast" ->
            LET s1 == check(s, n.What, p \o <<2>>)
            IN  after(s1, checkCast(s1, n, p))
      [] n.t = "AllocArray" ->
            LET s1 == check(s, n.N, p \o <<2>>)
            IN  after(s1, checkAllocArray(s1, n, p))
      [] n.t = "Alloc" -> checkAlloc(s, n, p)
      [] n.t = "Break" -> checkBreak(s, p)
      [] n.t = "Continue" -> checkContinue(s, p)
      [] OTHER -> panic(s)

\* The ':' nodes checkTernaries reports
unpaired(s) == {p \in DOMAIN s.ternaryvals : s.ternaryvals[p] # 2}

RECURSIVE checkTernaries(_, _, _)

\* checkTernaries ranges over the ternaryvals map, whose order Go leaves
\* open: order is the order of this range over the reported nodes
checkTernaries(s, order, i) ==
    IF i > Len(order) THEN s
    ELSE checkTernaries(errorf(s, order[i], "ErrTernaryMissingCond"), order, i + 1)

Orders(S) ==
    {o \in [1..Cardinality(S) -> S] : \A i, j \in DOMAIN o : o[i] = o[j] => i = j}

(***************************************************************************)
(* The forests the analyzer is run on: declarations followed by one        *)
(* function definition, as the parser returns them for the sources in the  *)
(* comments.                                                               *)
(***************************************************************************)
MaxBody == 2

KindIntPtr == Kind("KIND_INT", 1, 0, "")

KindIntArray == Kind("KIND_INT", 0, 1, "")

KindStruct(name, pointerlevel, arraylevel) ==
    Kind("KIND_STRUCT", pointerlevel, arraylevel, name)

\* c ? a : b
Ternary(c, a, b) ==
    OpBinary("OPBIN_TERNARYCOND", c, OpBinary("OPBIN_TERNARYVALS", a, b))

\* name(args)
Call(name, args) == OpBinary("OPBIN_FUNCALL", Variable(name), Args(args))

\* kind name = what;  and  kind name;  with what = Nil
Declare(kind, name, what) == OpAssign("OPASN_PLAIN", VarDecl(kind, name), what)

Assign(to, what) == OpAssign("OPASN_PLAIN", to, what)

Preludes ==
    {<<>>,
     \* void g();
     <<FunDecl("g", KindVoid, <<>>)>>,
     \* int h(int p);
     <<FunDecl("h", KindInt, <<VarDecl(KindInt, "p")>>)>>,
     \* struct s;
     <<StructForwardDecl("s")>>,
     \* struct s { int a; };
     <<NodeStruct("s", <<VarDecl(KindInt, "a")>>)>>,
     \* struct s; struct s k();
     <<StructForwardDecl("s"), FunDecl("k", KindStruct("s", 0, 0), <<>>)>>,
     \* struct s; struct s *k(struct s p);
     <<StructForwardDecl("s"),
       FunDecl("k", KindStruct("s", 1, 0), <<VarDecl(KindStruct("s", 0, 0), "p")>>)>>,
     \* struct s; struct t { struct s m; struct s *n; };
     <<StructForwardDecl("s"),
       NodeStruct("t", <<VarDecl(KindStruct("s", 0, 0), "m"),
                         VarDecl(KindStruct("s", 1, 0), "n")>>)>>}

Returns == {KindVoid, KindInt, KindStruct("nosuch", 0, 0)}

Statements ==
    {Declare(KindInt, "x", Nil),                       \* int x;
     Declare(KindInt, "x", Numeric(1)),                \* int x = 1;
     Declare(KindInt, "x", Bool(TRUE)),                \* int x = true;
     \* int x = true ? 1 : 2;
     Declare(KindInt, "x", Ternary(Bool(TRUE), Numeric(1), Numeric(2))),
     Declare(KindIntPtr, "x", Null),                   \* int *x = NULL;
     Declare(KindInt, "x", Null),                      \* int x = NULL;
     Assign(Variable("x"), Numeric(1)),                \* x = 1;
     Assign(Variable("x"), Bool(TRUE)),                \* x = true;
     Break,                                            \* break;
     Continue,                                         \* continue;
     While(Bool(TRUE), Block(<<Break>>)),              \* while (true) { break; }
     \* while (true) { if (true) { { continue; } } }
     While(Bool(TRUE),
           Block(<<If(Bool(TRUE), Block(<<Block(<<Continue>>)>>), Nil)>>)),
     \* for (int i = 0; true; ) { break; }
     For(Declare(KindInt, "i", Numeric(0)), Bool(TRUE), Nil, Block(<<Break>>)),
     If(Bool(TRUE), Block(<<>>), Nil),                 \* if (true) {}
     If(Numeric(1), Block(<<>>), Nil),                 \* if (1) {}
     If(Variable("y"), Block(<<>>), Nil),              \* if (y) {}
     While(Variable("y"), Block(<<>>)),                \* while (y) {}
     NodeAssert(Variable("y")),                        \* assert(y);
     Return(Nil),                                      \* return;
     Return(Numeric(1)),                               \* return 1;
     Return(Bool(TRUE)),                               \* return true;
     Return(Call("g", <<>>)),                          \* return g();
     \* return true ? 1 : 2;
     Return(Ternary(Bool(TRUE), Numeric(1), Numeric(2))),
     Call("h", <<Bool(TRUE)>>),                        \* h(true);
     Call("h", <<Variable("y")>>),                     \* h(y);
     \* int[] x = alloc_array(int, true);
     Declare(KindIntArray, "x", AllocArray(KindInt, Bool(TRUE))),
     \* int[] x = alloc_array(int, y);
     Declare(KindIntArray, "x", AllocArray(KindInt, Variable("y"))),
     \* (true ? true : false) ? 1 : 2;
     Ternary(Ternary(Bool(TRUE), Bool(TRUE), Bool(FALSE)), Numeric(1), Numeric(2)),
     Ternary(Bool(TRUE), Numeric(1), Numeric(2)),      \* true ? 1 : 2;
     Declare(KindStruct("s", 0, 0), "v", Nil),         \* struct s v;
     Declare(KindStruct("s", 1, 0), "v", Nil),         \* struct s *v;
     Declare(KindStruct("s", 0, 1), "v", Nil)}         \* struct s[] v;

FunBodies == UNION {[1..k -> Statements] : k \in 0..MaxBody}

Forests ==
    {pre \o <<FunDef("f", r, <<>>, Block(b))>> :
        pre \in Preludes, r \in Returns, b \in FunBodies}

NoCall == [pc |-> "idle", i |-> 0, call |-> 0, on |-> ""]

NoResults == [errs |-> <<>>, NodeTypes |-> [x \in {} |-> NilType], panicked |-> FALSE]

Results(s) == [errs |-> s.errs, NodeTypes |-> s.NodeTypes, panicked |-> s.panicked]

\* The analyzers checkTernaries can leave after check has left s1
AnalyzeOne(s1) ==
    IF s1.panicked THEN {s1}
    ELSE {checkTernaries(s1, order, 1) : order \in Orders(unpaired(s1))}

\* One round of the loop of Analyze: check and checkTernaries on the next node
AnalyzeNode ==
    /\ apc.pc = "analyze"
    /\ apc.i <= Len(forest)
    /\ ~an.panicked
    /\ an' \in AnalyzeOne(check(an, forest[apc.i], <<apc.i>>))
    /\ apc' = [apc EXCEPT !.i = @ + 1]
    /\ UNCHANGED <<forest, res1, typeVars, scopeVars, ssaVars, cfgVars, tokVars, parseVars>>

\* Analyze returns s.errs; the caller keeps the results of its first call
AnalyzeReturn ==
    /\ apc.pc = "analyze"
    /\ apc.i > Len(forest)
    /\ ~an.panicked
    /\ apc' = [apc EXCEPT !.pc = "returned"]
    /\ res1' = IF apc.call = 1 THEN Results(an) ELSE res1
    /\ UNCHANGED <<forest, an, typeVars, scopeVars, ssaVars, cfgVars, tokVars, parseVars>>

\* A second call of Analyze with the same forest on the same Analyzer
AnalyzeAgain ==
    /\ apc.pc = "returned"
    /\ apc.call = 1
    /\ apc' = [pc |-> "analyze", i |-> 1, call |-> 2, on |-> "same"]
    /\ UNCHANGED <<forest, an, res1, typeVars, scopeVars, ssaVars, cfgVars, tokVars, parseVars>>

\* A second call of Analyze with the same forest on a new Analyzer
AnalyzeAgainNew ==
    /\ apc.pc = "returned"
    /\ apc.call = 1
    /\ an' = reset
    /\ apc' = [pc |-> "analyze", i |-> 1, call |-> 2, on |-> "new"]
    /\ UNCHANGED <<forest, res1, typeVars, scopeVars, ssaVars, cfgVars, tokVars, parseVars>>

(***************************************************************************)
(* package token: the FIFO Tokens.  A token is its kind, its value and the *)
(* position of its span; NilTok is the nil *Token.  An operation returns   *)
(* the FIFO it leaves and the token it returns.                            *)
(***************************************************************************)
NilTok == [kind |-> "nil", value |-> "", pos |-> 0]

NewToken(kind, value, pos) == [kind |-> kind, value |-> value, pos |-> pos]

toksPop(q) ==
    IF Len(q) = 0 THEN [toks |-> q, tok |-> NilTok]
    ELSE [toks |-> Tail(q), tok |-> Head(q)]

toksPeekHead(q) == [toks |-> q, tok |-> IF Len(q) = 0 THEN NilTok ELSE Head(q)]

RECURSIVE toksPeek(_)

toksPeek(q) ==
    IF Len(q) = 0 THEN [toks |-> q, tok |-> NilTok]
    ELSE IF Head(q).kind \in {"CommentOne", "CommentMulti"}
         THEN toksPeek(toksPop(q).toks)
         ELSE [toks |-> q, tok |-> Head(q)]

toksPeekAll(q) == [toks |-> q, tok |-> IF Len(q) = 0 THEN NilTok ELSE Head(q)]

\* Accept: err is whether an error is returned
toksAcceptAt(cur, kind) ==
    IF cur.tok = NilTok \/ cur.tok.kind # kind THEN [toks |-> cur.toks, err |-> TRUE]
    ELSE [toks |-> toksPop(cur.toks).toks, err |-> FALSE]

toksAccept(q, kind) == toksAcceptAt(toksPeek(q), kind)

RECURSIVE toksFind(_, _)

toksFindAt(cur, kinds) ==
    IF cur.tok = NilTok \/ cur.tok.kind \in kinds THEN cur
    ELSE toksFind(toksPop(cur.toks).toks, kinds)

toksFind(q, kinds) == toksFindAt(toksPeek(q), kinds)

NoTokOp == [op |-> "idle", before |-> <<>>, tok |-> NilTok, err |-> FALSE]

MaxToks == 4

TokKinds == {"Id", "Semicolon", "CommentOne", "CommentMulti"}

\* the FIFO the lexer builds with Add for a sequence of kinds
Lexed(ks) == [i \in 1..Len(ks) |-> NewToken(ks[i], "", i)]

Fifos == {Lexed(ks) : ks \in UNION {[1..n -> TokKinds] : n \in 0..MaxToks}}

(***************************************************************************)
(* package parse: the recursive-descent parser.  The state a parsing       *)
(* function works on is the Parser (nodes, errs, typedefs), the FIFO it is *)
(* handed (toks) and the globals of package node (globalid, toktags);      *)
(* panicked is set by a Go panic.  A parsing function returns the state it *)
(* leaves, the node it returns and its error ("" is the nil error).        *)
(***************************************************************************)
IsValidPrimitive(name) == name \in {"int", "bool", "char", "void", "string", "struct"}

reserveds ==
    {"if", "while", "for", "return", "assert", "error", "typedef", "struct", "int",
     "bool", "void", "string", "char", "NULL", "true", "false", "alloc",
     "alloc_array", "break", "continue"}

IsReserved(id) == id \in reserveds

NODEID_INVALID == 0

NewParser(toks) ==
    [toks |-> toks, nodes |-> <<>>, errs |-> <<>>, typedefs |-> {},
     globalid |-> NODEID_INVALID, toktags |-> <<>>, panicked |-> FALSE]

parsed(ps, n) == [ps |-> ps, n |-> n, err |-> ""]

failed(ps, err) == [ps |-> ps, n |-> Nil, err |-> err]

parsePanic(ps) == [ps |-> [ps EXCEPT !.panicked = TRUE], n |-> Nil, err |-> "panic"]

\* errorf appends the error to p.errs and returns it
pErrorf(ps, tok, msg) ==
    IF ps.panicked THEN failed(ps, "panic")
    ELSE failed([ps EXCEPT !.errs = Append(@, [Tok |-> tok, Msg |-> msg])], msg)

\* Store: the node gets a fresh Common, its id tagged with the token
nodeStore(ps, tok, n) ==
    IF ps.panicked THEN failed(ps, "panic")
    ELSE IF n = Nil \/ tok = NilTok THEN parsePanic(ps)
    ELSE parsed([ps EXCEPT !.globalid = @ + 1, !.toktags = Append(@, tok)],
                [Common |-> <<ps.globalid + 1>>] @@ n)

\* the calls of toks.Peek, Pop, Accept and Find on the parser's FIFO
peekTok(ps) == toksPeek(ps.toks).tok

peeked(ps) == [ps EXCEPT !.toks = toksPeek(@).toks]

popped(ps) == [ps EXCEPT !.toks = toksPop(@).toks]

acceptErr(ps, kind) == toksAccept(ps.toks, kind).err

accepted(ps, kind) == [ps EXCEPT !.toks = toksAccept(@, kind).toks]

found(ps, kinds) == [ps EXCEPT !.toks = toksFind(@, kinds).toks]

\* the result of a call, named for the code that follows the call
With(v, F(_)) == F(v)

RECURSIVE typeSuffix(_, _, _)

\* a loop of <tp-suffix>: pops the leading tokens of the kind and counts them
typeSuffix(ps, kind, level) ==
    IF peekTok(ps) = NilTok \/ peekTok(ps).kind # kind
    THEN [ps |-> peeked(ps), n |-> level]
    ELSE typeSuffix(popped(peeked(ps)), kind, level + 1)

typeKind(ps, atom, kind, name) ==
    With(typeSuffix(ps, "Star", 0), LAMBDA ptr :
    With(typeSuffix(ptr.ps, "Brackets", 0), LAMBDA arr :
         nodeStore(arr.ps, atom, Kind(kind, ptr.n, arr.n, name))))

pType(ps) ==
    LET atom == peekTok(ps)
        s0 == popped(peeked(ps))
        sid == toksPop(s0.toks).tok
        kind == CASE atom.value = "int" -> "KIND_INT"
                  [] atom.value = "bool" -> "KIND_BOOL"
                  [] atom.value = "string" -> "KIND_STRING"
                  [] atom.value = "char" -> "KIND_CHAR"
                  [] atom.value = "void" -> "KIND_VOID"
                  [] OTHER -> "KIND_TYPEDEF"
    IN  IF atom = NilTok THEN failed(peeked(ps), "EOT")
        ELSE IF atom.kind # "Id" THEN failed(peeked(ps), "not a type declaration")
        ELSE IF ~IsValidPrimitive(atom.value) /\ atom.value \notin ps.typedefs
             THEN pErrorf(peeked(ps), atom, "typedef not defined")
        ELSE IF atom.value # "struct"
             THEN typeKind(s0, atom, kind, IF kind = "KIND_TYPEDEF" THEN atom.value ELSE "")
        \* sid.String() of a nil sid is a nil dereference
        ELSE IF sid = NilTok THEN parsePanic(popped(s0))
        ELSE IF sid.kind # "Id" THEN pErrorf(popped(s0), sid, "expected struct name")
        ELSE typeKind(popped(s0), atom, "KIND_STRUCT", sid.value)

pVarDecl(ps) ==
    IF peekTok(ps) = NilTok THEN failed(peeked(ps), "EOT")
    ELSE With(pType(peeked(ps)), LAMBDA kind :
         LET first == peekTok(ps)
             nxt == peekTok(kind.ps)
             s0 == peeked(kind.ps)
         IN  IF kind.err # "" THEN failed(kind.ps, kind.err)
             ELSE IF nxt = NilTok THEN failed(s0, "EOT")
             ELSE IF nxt.kind # "Id" THEN pErrorf(s0, first, "not a var declaration")
             ELSE IF IsReserved(nxt.value) THEN pErrorf(s0, nxt, "reserved identifier")
             ELSE nodeStore(popped(s0), first, VarDecl(kind.n, nxt.value)))

precedenceb(kind) ==
    CASE kind \in {"Quest", "Colon"} -> 0
      [] kind = "DPipe" -> 1
      [] kind = "DAmpersand" -> 2
      [] kind = "Pipe" -> 3
      [] kind = "Hat" -> 4
      [] kind = "Ampersand" -> 5
      [] kind \in {"Eq", "Ne"} -> 6
      [] kind \in {"Lt", "Gt", "Le", "Ge"} -> 7
      [] kind \in {"DLt", "DGt"} -> 8
      [] kind \in {"Plus", "Minus"} -> 9
      [] kind \in {"Star", "Slash", "Percent"} -> 10
      [] kind \in {"Arrow", "Dot"} -> 11

precedenceu == 10

isleftassocb(kind) ==
    kind \notin {"Quest", "Colon", "Assign", "AssignPlus", "AssignMinus", "AssignStar",
                 "AssignSlash", "AssignPercent", "AssignAmpersand", "AssignHat",
                 "AssignPipe", "AssignDLt", "AssignDGt"}

tok_to_unop ==
    [Minus |-> "OPUN_NEG", Exclam |-> "OPUN_LOGNOT", Worm |-> "OPUN_BITNOT",
     Star |-> "OPUN_DEREF", DPlus |-> "OPUN_ADDONE", DMinus |-> "OPUN_SUBONE",
     Ampersand |-> "OPUN_ADDROF"]

tok_to_binop ==
    [Plus |-> "OPBIN_ADD", Minus |-> "OPBIN_SUB", Star |-> "OPBIN_MUL",
     Slash |-> "OPBIN_DIV", Percent |-> "OPBIN_MOD", LBrack |-> "OPBIN_ARRSUB",
     LParen |-> "OPBIN_FUNCALL", Dot |-> "OPBIN_STRUCTDEC",
     Arrow |-> "OPBIN_STRUCTPTRDEC", Quest |-> "OPBIN_TERNARYCOND",
     Colon |-> "OPBIN_TERNARYVALS", DGt |-> "OPBIN_SHIFTR", DLt |-> "OPBIN_SHIFTL",
     Le |-> "OPBIN_LE", Ge |-> "OPBIN_GE", Lt |-> "OPBIN_LT", Gt |-> "OPBIN_GT",
     Eq |-> "OPBIN_EQ", Ne |-> "OPBIN_NE", Ampersand |-> "OPBIN_BAND",
     Pipe |-> "OPBIN_BOR", Hat |-> "OPBIN_BXOR", DAmpersand |-> "OPBIN_AND",
     DPipe |-> "OPBIN_OR"]

\* strconv.ParseInt(val, 10, 32) on the decimal literals of the inputs: the
\* digits, and a literal that does not fit 32 bits
DecLits == <<"0", "1", "2", "3", "4", "5", "6", "7", "8", "9">>

ParseInt(val) ==
    IF \E i \in 1..Len(DecLits) : DecLits[i] = val
    THEN [pi |-> (CHOOSE i \in 1..Len(DecLits) : DecLits[i] = val) - 1, err |-> FALSE]
    ELSE [pi |-> 0, err |-> TRUE]

RECURSIVE expratom(_)
RECURSIVE exprparse(_, _)
RECURSIVE exprclimb(_, _, _)
RECURSIVE funcallArgs(_, _, _)

pExpr(ps) == exprparse(ps, 0)

\* case token.LParen of expratom, after the Pop: a cast or a subexpression
atomParen(s0, this) ==
    With(pType(s0), LAMBDA castkind :
         IF castkind.ps.panicked THEN castkind
         ELSE IF castkind.err = ""
              THEN IF acceptErr(castkind.ps, "RParen")
                   THEN pErrorf(accepted(castkind.ps, "RParen"), this, "invalid cast")
                   ELSE With(expratom(accepted(castkind.ps, "RParen")), LAMBDA castwhat :
                        IF castwhat.err # "" THEN failed(castwhat.ps, castwhat.err)
                        ELSE nodeStore(castwhat.ps, this, Cast(castkind.n, castwhat.n)))
         ELSE With(exprparse(castkind.ps, 0), LAMBDA parexpr :
              IF parexpr.err # "" THEN failed(parexpr.ps, parexpr.err)
              ELSE IF acceptErr(parexpr.ps, "RParen")
                   THEN pErrorf(accepted(parexpr.ps, "RParen"), this,
                                "unbalanced parentheses")
              ELSE parsed(accepted(parexpr.ps, "RParen"), parexpr.n)))

\* the end of case "alloc", "alloc_array" of expratom, ret being stored
atomAllocEnd(ret, this) ==
    IF acceptErr(ret.ps, "RParen")
    THEN pErrorf(accepted(ret.ps, "RParen"), this, "missing ')'")
    ELSE parsed(accepted(ret.ps, "RParen"), ret.n)

\* case "alloc", "alloc_array" of expratom, after the Pop
atomAlloc(s0, this) ==
    IF acceptErr(s0, "LParen") THEN pErrorf(accepted(s0, "LParen"), this, "missing '('")
    ELSE With(pType(accepted(s0, "LParen")), LAMBDA ak :
         IF ak.err # "" THEN pErrorf(ak.ps, this, "invalid type")
         ELSE IF this.value # "alloc_array"
              THEN atomAllocEnd(nodeStore(ak.ps, this, Alloc(ak.n)), this)
         ELSE IF acceptErr(ak.ps, "Comma")
              THEN pErrorf(accepted(ak.ps, "Comma"), this,
                           "alloc_array missing size expression")
         ELSE With(pExpr(accepted(ak.ps, "Comma")), LAMBDA size :
              IF size.err # "" THEN pErrorf(size.ps, this, "invalid size expression")
              ELSE atomAllocEnd(nodeStore(size.ps, this, AllocArray(ak.n, size.n)), this)))

expratom(ps) ==
    LET this == peekTok(ps)
        s0 == popped(peeked(ps))
        num == ParseInt(this.value)
    IN  IF this = NilTok THEN failed(peeked(ps), "EOT")
        ELSE IF this.kind \in DOMAIN tok_to_unop
             THEN With(exprparse(s0, precedenceu + 1), LAMBDA un :
                  IF un.err # "" THEN failed(un.ps, un.err)
                  ELSE nodeStore(un.ps, this, OpUnary(tok_to_unop[this.kind], un.n)))
        ELSE CASE this.kind = "LParen" -> atomParen(s0, this)
               \* the hexadecimal literal of the inputs is "0", kept whole
               [] this.kind \in {"DecNum", "HexNum"} ->
                    IF num.err THEN pErrorf(s0, this, "invalid integer")
                    ELSE nodeStore(s0, this,
                                   [Base |-> IF this.kind = "HexNum" THEN 16 ELSE 10]
                                       @@ Numeric(num.pi))
               [] this.kind = "Id" ->
                    IF this.value \in ps.typedefs
                    THEN failed(peeked(ps), "atom is typedef")
                    ELSE IF this.value = "void"
                         THEN failed(peeked(ps), "`void' not permitted in expressions")
                    ELSE IF this.value \in {"alloc", "alloc_array"}
                         THEN atomAlloc(s0, this)
                    ELSE IF IsReserved(this.value)
                         THEN failed(peeked(ps), "reserved identifier in expression")
                    ELSE nodeStore(s0, this, Variable(this.value))
               [] this.kind \in {"True", "False"} ->
                    nodeStore(s0, this, Bool(this.kind = "True"))
               [] this.kind = "Null" -> nodeStore(s0, this, Null)
               [] this.kind = "StrLit" -> nodeStore(s0, this, StrLit(this.value))
               [] this.kind = "ChrLit" ->
                    nodeStore(s0, this, [t |-> "ChrLit", Value |-> this.value])
               [] OTHER -> pErrorf(peeked(ps), this, "invalid expression atom")

\* the arguments of a call, after '(' when no ')' follows at once
funcallArgs(ps, op, args) ==
    IF peekTok(ps) = NilTok THEN parsed(peeked(ps), args)
    ELSE With(exprparse(peeked(ps), 0), LAMBDA arg :
         IF arg.err # "" THEN pErrorf(arg.ps, op, "invalid function argument")
         ELSE IF ~acceptErr(arg.ps, "Comma")
              THEN funcallArgs(accepted(arg.ps, "Comma"), op, Append(args, arg.n))
         ELSE IF ~acceptErr(arg.ps, "RParen")
              THEN parsed(accepted(arg.ps, "RParen"), Append(args, arg.n))
         ELSE pErrorf(accepted(arg.ps, "RParen"), op,
                      "unbalanced parentheses in function call"))

\* the loop of exprparse continued with the node stored for the operator
climbOn(stored, minprec) ==
    IF stored.err # "" THEN stored ELSE exprclimb(stored.ps, stored.n, minprec)

\* the loop of exprparse, lhs being parsed
exprclimb(ps, lhs, minprec) ==
    LET op == peekTok(ps)
        s0 == popped(peeked(ps))
        binop == tok_to_binop[op.kind]
        prec == precedenceb(op.kind)
    IN  IF op = NilTok \/ op.kind \notin DOMAIN tok_to_binop THEN parsed(peeked(ps), lhs)
        ELSE IF op.kind = "LBrack"
             THEN With(exprparse(s0, 0), LAMBDA index :
                  IF index.err # ""
                  THEN pErrorf(index.ps, op, "invalid function argument")
                  ELSE IF acceptErr(index.ps, "RBrack")
                       THEN pErrorf(accepted(index.ps, "RBrack"), op,
                                    "unbalanced array subscript")
                  ELSE climbOn(nodeStore(accepted(index.ps, "RBrack"), op,
                                         OpBinary(binop, lhs, index.n)), minprec))
        ELSE IF op.kind = "LParen"
             THEN With(IF acceptErr(s0, "RParen")
                       THEN funcallArgs(accepted(s0, "RParen"), op, <<>>)
                       ELSE parsed(accepted(s0, "RParen"), <<>>), LAMBDA args :
                  IF args.err # "" THEN failed(args.ps, args.err)
                  \* the Args node is built without Store
                  ELSE climbOn(nodeStore(args.ps, op, OpBinary(binop, lhs, Args(args.n))),
                               minprec))
        ELSE IF prec < minprec THEN parsed(peeked(ps), lhs)
        ELSE With(exprparse(s0, IF isleftassocb(op.kind) THEN prec + 1 ELSE prec),
                  LAMBDA rhs :
                  IF rhs.err # "" THEN failed(rhs.ps, rhs.err)
                  ELSE climbOn(nodeStore(rhs.ps, op, OpBinary(binop, lhs, rhs.n)),
                               minprec))

exprparse(ps, minprec) ==
    With(expratom(ps), LAMBDA lhs :
         IF lhs.err # "" THEN failed(lhs.ps, lhs.err)
         ELSE exprclimb(lhs.ps, lhs.n, minprec))

tok_to_asnop ==
    [Assign |-> "OPASN_PLAIN", AssignPlus |-> "OPASN_ADD", AssignMinus |-> "OPASN_SUB",
     AssignStar |-> "OPASN_MUL", AssignSlash |-> "OPASN_DIV",
     AssignPercent |-> "OPASN_MOD", AssignDLt |-> "OPASN_LSHIFT",
     AssignDGt |-> "OPASN_RSHIFT", AssignAmpersand |-> "OPASN_AND",
     AssignHat |-> "OPASN_XOR", AssignPipe |-> "OPASN_OR"]

tok_to_stmtsuffix == [DPlus |-> "OPUN_ADDONESUFFIX", DMinus |-> "OPUN_SUBONESUFFIX"]

\* the first branch of SimpleStmt: what follows the expression lv
simpleAfterExpr(lv, first) ==
    LET nxt == peekTok(lv.ps)
        s1 == popped(peeked(lv.ps))
    IN  IF nxt = NilTok THEN parsed(peeked(lv.ps), lv.n)
        ELSE IF nxt.kind \in DOMAIN tok_to_asnop
             THEN With(pExpr(s1), LAMBDA rv :
                  IF rv.err # "" THEN pErrorf(rv.ps, nxt, "invalid rvalue")
                  ELSE nodeStore(rv.ps, first,
                                 OpAssign(tok_to_asnop[nxt.kind], lv.n, rv.n)))
        ELSE IF nxt.kind \in DOMAIN tok_to_stmtsuffix
             THEN nodeStore(s1, nxt, OpUnary(tok_to_stmtsuffix[nxt.kind], lv.n))
        ELSE parsed(peeked(lv.ps), lv.n)

\* the second branch of SimpleStmt: <tp> <vid> [ "=" <exp> ], exprerr being
\* the error of the first
simpleVarDecl(ps, first, exprerr) ==
    With(pVarDecl(ps), LAMBDA vd :
         IF vd.ps.panicked THEN vd
         ELSE IF vd.err # "" THEN failed(vd.ps, exprerr)
         ELSE IF peekTok(vd.ps) # NilTok /\ peekTok(vd.ps).kind = "Assign"
              THEN With(pExpr(popped(peeked(vd.ps))), LAMBDA av :
                   IF av.err # ""
                   THEN pErrorf(av.ps, first, "erroneous variable assignment")
                   ELSE nodeStore(av.ps, first, OpAssign("OPASN_PLAIN", vd.n, av.n)))
         ELSE nodeStore(peeked(vd.ps), first, OpAssign("OPASN_PLAIN", vd.n, Nil)))

pSimpleStmt(ps) ==
    IF peekTok(ps) = NilTok THEN failed(peeked(ps), "EOT")
    ELSE With(pExpr(peeked(ps)), LAMBDA lv :
         IF lv.ps.panicked THEN lv
         ELSE IF lv.err = "" THEN simpleAfterExpr(lv, peekTok(ps))
         ELSE simpleVarDecl(lv.ps, peekTok(ps), lv.err))

RECURSIVE pStmt(_)
RECURSIVE pBlock(_)
RECURSIVE blockStmts(_, _, _)

\* the loop of Block: a failing statement is skipped up to and including the
\* next ';' or '}'
blockStmts(ps, stmts, inerror) ==
    IF peekTok(ps) = NilTok \/ peekTok(ps).kind = "RCurly"
    THEN [ps |-> peeked(ps), stmts |-> stmts, inerror |-> inerror]
    ELSE With(pStmt(peeked(ps)), LAMBDA stmt :
         IF stmt.ps.panicked
         THEN [ps |-> stmt.ps, stmts |-> stmts, inerror |-> inerror]
         ELSE IF stmt.err # ""
              THEN blockStmts(popped(found(stmt.ps, {"Semicolon", "RCurly"})),
                              Append(stmts, stmt.n), TRUE)
         ELSE blockStmts(stmt.ps, Append(stmts, stmt.n), inerror))

pBlock(ps) ==
    LET first == peekTok(ps)
    IN  IF first = NilTok THEN failed(peeked(ps), "EOT")
        ELSE IF first.kind # "LCurly" THEN failed(peeked(ps), "not a block")
        ELSE With(blockStmts(popped(peeked(ps)), <<>>, FALSE), LAMBDA loop :
             IF acceptErr(loop.ps, "RCurly")
             THEN pErrorf(accepted(loop.ps, "RCurly"), first, "block not terminated")
             ELSE IF loop.inerror
                  THEN failed(accepted(loop.ps, "RCurly"), "block contained errors")
             ELSE nodeStore(accepted(loop.ps, "RCurly"), first, Block(loop.stmts)))

\* the end of case "if" of Stmt: the else branch of the stored If
stmtElse(ret) ==
    LET nxt == peekTok(ret.ps)
    IN  IF ret.err # "" THEN ret
        ELSE IF nxt = NilTok \/ ~(nxt.kind = "Id" /\ nxt.value = "else")
             THEN parsed(peeked(ret.ps), ret.n)
        ELSE With(pStmt(popped(peeked(ret.ps))), LAMBDA bodyfalse :
             IF bodyfalse.err # "" THEN failed(bodyfalse.ps, bodyfalse.err)
             ELSE parsed(bodyfalse.ps, [ret.n EXCEPT !.False = bodyfalse.n]))

\* case "if" of Stmt, after the Pop
stmtIf(s0, first) ==
    IF acceptErr(s0, "LParen")
    THEN pErrorf(accepted(s0, "LParen"), first, "`if' condition missing '('")
    ELSE With(pExpr(accepted(s0, "LParen")), LAMBDA cond :
         IF cond.err # "" THEN failed(cond.ps, cond.err)
         ELSE IF acceptErr(cond.ps, "RParen")
              THEN pErrorf(accepted(cond.ps, "RParen"), first,
                           "`if' condition missing ')'")
         ELSE With(pStmt(accepted(cond.ps, "RParen")), LAMBDA bodytrue :
              IF bodytrue.err # "" THEN failed(bodytrue.ps, bodytrue.err)
              ELSE stmtElse(nodeStore(bodytrue.ps, first, If(cond.n, bodytrue.n, Nil)))))

\* case "while" of Stmt, after the Pop
stmtWhile(s0, first) ==
    IF acceptErr(s0, "LParen")
    THEN pErrorf(accepted(s0, "LParen"), first, "`while' condition missing '('")
    ELSE With(pExpr(accepted(s0, "LParen")), LAMBDA cond :
         IF cond.err # "" THEN failed(cond.ps, cond.err)
         ELSE IF acceptErr(cond.ps, "RParen")
              THEN pErrorf(accepted(cond.ps, "RParen"), first,
                           "`while' condition missing ')'")
         ELSE With(pStmt(accepted(cond.ps, "RParen")), LAMBDA body :
              IF body.err # "" THEN failed(body.ps, body.err)
              ELSE nodeStore(body.ps, first, While(cond.n, body.n))))

\* the end of case "for" of Stmt, from the condition on
stmtForCond(init, first) ==
    With(pExpr(accepted(init.ps, "Semicolon")), LAMBDA cond :
         IF cond.err # "" THEN failed(cond.ps, cond.err)
         ELSE IF acceptErr(cond.ps, "Semicolon")
              THEN pErrorf(accepted(cond.ps, "Semicolon"), first,
                           "`for' missing ';' after condition")
         ELSE With(pSimpleStmt(accepted(cond.ps, "Semicolon")), LAMBDA oneach :
              IF oneach.err # "" THEN failed(oneach.ps, oneach.err)
              ELSE IF acceptErr(oneach.ps, "RParen")
                   THEN pErrorf(accepted(oneach.ps, "RParen"), first, "`for' missing ')'")
              ELSE With(pStmt(accepted(oneach.ps, "RParen")), LAMBDA body :
                   IF body.err # "" THEN failed(body.ps, body.err)
                   ELSE nodeStore(body.ps, first,
                                  For(init.n, cond.n, oneach.n, body.n)))))

\* case "for" of Stmt, after the Pop
stmtFor(s0, first) ==
    IF acceptErr(s0, "LParen")
    THEN pErrorf(accepted(s0, "LParen"), first, "`for' missing '('")
    ELSE With(pSimpleStmt(accepted(s0, "LParen")), LAMBDA init :
         IF init.err # "" THEN failed(init.ps, init.err)
         ELSE IF acceptErr(init.ps, "Semicolon")
              THEN pErrorf(accepted(init.ps, "Semicolon"), first,
                           "`for' missing ';' after initializer")
         ELSE stmtForCond(init, first))

\* case "return" of Stmt, after the Pop
stmtReturn(s0, first) ==
    IF ~acceptErr(s0, "Semicolon")
    THEN nodeStore(accepted(s0, "Semicolon"), first, Return(Nil))
    ELSE With(pExpr(accepted(s0, "Semicolon")), LAMBDA expr :
         IF expr.err # "" THEN pErrorf(expr.ps, first, "invalid return expression")
         ELSE IF acceptErr(expr.ps, "Semicolon")
              THEN pErrorf(accepted(expr.ps, "Semicolon"), first, "return missing ';'")
         ELSE nodeStore(accepted(expr.ps, "Semicolon"), first, Return(expr.n)))

\* case "assert", "error" of Stmt, after the Pop
stmtAssert(s0, first) ==
    IF acceptErr(s0, "LParen") THEN pErrorf(accepted(s0, "LParen"), first, "missing '('")
    ELSE With(pExpr(accepted(s0, "LParen")), LAMBDA expr :
         LET s1 == accepted(expr.ps, "RParen")
         IN  IF expr.err # "" THEN pErrorf(expr.ps, first, "invalid statement")
             ELSE IF acceptErr(expr.ps, "RParen")
                  THEN pErrorf(s1, first, "statement missing ')'")
             ELSE IF acceptErr(s1, "Semicolon")
                  THEN pErrorf(accepted(s1, "Semicolon"), first, "statement missing ';'")
             ELSE nodeStore(accepted(s1, "Semicolon"), first,
                            IF first.value = "assert" THEN NodeAssert(expr.n)
                            ELSE Error(expr.n)))

\* case "break" and case "continue" of Stmt, after the Pop
stmtJump(s0, first) ==
    IF acceptErr(s0, "Semicolon")
    THEN pErrorf(accepted(s0, "Semicolon"), first, "statement missing ';'")
    ELSE nodeStore(accepted(s0, "Semicolon"), first,
                   IF first.value = "break" THEN Break ELSE Continue)

\* the default case of Stmt
stmtSimple(ps, first) ==
    With(pSimpleStmt(ps), LAMBDA ss :
         IF ss.ps.panicked THEN ss
         ELSE IF ss.err # "" THEN failed(ss.ps, "not a simple statement")
         ELSE IF acceptErr(ss.ps, "Semicolon")
              THEN pErrorf(accepted(ss.ps, "Semicolon"), first, "statement missing ';'")
         ELSE parsed(accepted(ss.ps, "Semicolon"), ss.n))

\* the switch of Stmt, on the value of the token peeked before Block was tried
stmtSwitch(ps, first) ==
    CASE first.value = "if" -> stmtIf(popped(ps), first)
      [] first.value = "while" -> stmtWhile(popped(ps), first)
      [] first.value = "for" -> stmtFor(popped(ps), first)
      [] first.value = "return" -> stmtReturn(popped(ps), first)
      [] first.value \in {"assert", "error"} -> stmtAssert(popped(ps), first)
      [] first.value \in {"break", "continue"} -> stmtJump(popped(ps), first)
      [] OTHER -> stmtSimple(ps, first)

pStmt(ps) ==
    IF peekTok(ps) = NilTok THEN failed(peeked(ps), "EOT")
    ELSE With(pBlock(peeked(ps)), LAMBDA block :
         IF block.err = "" \/ block.ps.panicked THEN block
         ELSE stmtSwitch(block.ps, peekTok(ps)))

RECURSIVE structMembers(_, _)

\* the loop of StructDef: the members are VarDecl values built without Store
structMembers(ps, ms) ==
    LET cur == peekTok(ps)
    IN  IF cur = NilTok \/ cur.kind = "RCurly" THEN parsed(peeked(ps), ms)
        ELSE With(pType(peeked(ps)), LAMBDA mk :
             LET mid == peekTok(mk.ps)
                 s1 == popped(peeked(mk.ps))
             IN  IF mk.err # "" THEN pErrorf(mk.ps, cur, "expecting struct member type")
                 ELSE IF mid # NilTok /\ mid.kind # "Id"
                      THEN pErrorf(peeked(mk.ps), cur, "expecting struct member name")
                 \* mid.Value() of a nil mid is a nil dereference
                 ELSE IF mid = NilTok THEN parsePanic(peeked(mk.ps))
                 ELSE IF IsReserved(mid.value)
                      THEN pErrorf(peeked(mk.ps), mid,
                                   "struct member is a reserved identifier")
                 ELSE IF acceptErr(s1, "Semicolon")
                      THEN pErrorf(accepted(s1, "Semicolon"), cur,
                                   "struct definition member missing ';'")
                 ELSE structMembers(accepted(s1, "Semicolon"),
                                    Append(ms, VarDecl(mk.n, mid.value))))

pStructDef(ps, name) ==
    LET first == peekTok(ps)
    IN  IF first = NilTok THEN failed(peeked(ps), "EOT")
        ELSE IF first.kind # "LCurly" THEN failed(peeked(ps), "not a struct definition")
        ELSE With(structMembers(popped(peeked(ps)), <<>>), LAMBDA members :
             LET s1 == accepted(members.ps, "RCurly")
             IN  IF members.err # "" THEN failed(members.ps, members.err)
                 ELSE IF acceptErr(members.ps, "RCurly")
                      THEN pErrorf(s1, first, "struct definition missing '}'")
                 ELSE IF Len(members.n) = 0
                      THEN pErrorf(s1, first, "struct without any members")
                 ELSE IF acceptErr(s1, "Semicolon")
                      THEN pErrorf(accepted(s1, "Semicolon"), first,
                                   "struct definition missing ';'")
                 ELSE nodeStore(accepted(s1, "Semicolon"), first,
                                NodeStruct(name, members.n)))

\* the end of TopVarDecl: the declaration of the variable next names
topVarDeclNamed(ps, first, kind, nxt) ==
    IF IsReserved(nxt.value)
    THEN pErrorf(ps, nxt, "reserved identifier for variable declaration")
    ELSE nodeStore(popped(ps), first, VarDecl(kind, nxt.value))

pTopVarDecl(ps) ==
    IF peekTok(ps) = NilTok THEN failed(peeked(ps), "EOT")
    ELSE With(pType(peeked(ps)), LAMBDA kind :
         LET first == peekTok(ps)
             nxt == peekTok(kind.ps)
             s0 == peeked(kind.ps)
         IN  IF kind.err # "" THEN failed(kind.ps, kind.err)
             ELSE IF nxt = NilTok THEN failed(s0, "EOT")
             ELSE IF kind.n.Kind = "KIND_STRUCT" /\ kind.n.PointerLevel = 0
                     /\ kind.n.ArrayLevel = 0 /\ nxt.kind = "Semicolon"
                  \* the forward declaration is built without Store
                  THEN parsed(popped(s0), StructForwardDecl(kind.n.Name))
             ELSE IF nxt.kind \notin {"Id", "LCurly"}
                  THEN pErrorf(s0, first, "not a var declaration or a struct definition")
             ELSE IF kind.n.Kind = "KIND_STRUCT"
                  THEN With(pStructDef(s0, kind.n.Name), LAMBDA sd :
                       IF sd.err = "" \/ sd.ps.panicked THEN sd
                       ELSE topVarDeclNamed(sd.ps, first, kind.n, nxt))
             ELSE topVarDeclNamed(s0, first, kind.n, nxt))

RECURSIVE funcParamsLoop(_, _, _)

\* the loop params of FuncParams
funcParamsLoop(ps, first, params) ==
    With(pVarDecl(ps), LAMBDA pdecl :
         LET parorcomma == peekTok(pdecl.ps)
             s1 == peeked(pdecl.ps)
         IN  IF pdecl.err # ""
             THEN pErrorf(pdecl.ps, first, "unexpected parameter list contents")
             ELSE IF parorcomma = NilTok
                  THEN pErrorf(s1, first, "unexpected end of parameter list")
             ELSE IF parorcomma.kind = "RParen"
                  THEN IF acceptErr(s1, "RParen")
                       THEN pErrorf(accepted(s1, "RParen"), first,
                                    "unterminated parameter list")
                       ELSE parsed(accepted(s1, "RParen"), Append(params, pdecl.n))
             ELSE funcParamsLoop(IF parorcomma.kind = "Comma" THEN popped(s1) ELSE s1,
                                 first, Append(params, pdecl.n)))

pFuncParams(ps) ==
    IF peekTok(ps) = NilTok THEN failed(peeked(ps), "EOT")
    ELSE IF ~acceptErr(ps, "RParen") THEN parsed(accepted(ps, "RParen"), <<>>)
    ELSE funcParamsLoop(accepted(ps, "RParen"), peekTok(ps), <<>>)

\* the end of FuncDecl: the parameters of the stored FunDecl
funcDeclParams(ret) ==
    IF ret.err # "" THEN ret
    ELSE With(pFuncParams(ret.ps), LAMBDA params :
         IF params.err # "" THEN failed(params.ps, params.err)
         ELSE parsed(params.ps, [ret.n EXCEPT !.Params = params.n]))

pFuncDecl(ps, vd) ==
    LET first == peekTok(ps)
    IN  IF first = NilTok THEN failed(peeked(ps), "EOT")
        ELSE IF acceptErr(ps, "LParen")
             THEN pErrorf(accepted(ps, "LParen"), first, "invalid function declaration")
        ELSE funcDeclParams(nodeStore(accepted(ps, "LParen"), first,
                                      FunDecl(vd.Name, vd.Kind, <<>>)))

\* the end of FuncDeclDef: the body of the stored FunDef
funcDefBody(ret, first) ==
    IF ret.err # "" THEN ret
    ELSE With(pBlock(ret.ps), LAMBDA body :
         IF body.err = "" THEN parsed(body.ps, [ret.n EXCEPT !.Body = body.n])
         ELSE pErrorf(body.ps, first, "invalid function body"))

\* FunDef embeds the FunDecl, which keeps its own Common
pFuncDeclDef(ps, vd) ==
    IF peekTok(ps) = NilTok THEN failed(peeked(ps), "EOT")
    ELSE With(pFuncDecl(peeked(ps), vd), LAMBDA fd :
         IF fd.err # "" THEN failed(fd.ps, fd.err)
         ELSE IF ~acceptErr(fd.ps, "Semicolon")
              THEN parsed(accepted(fd.ps, "Semicolon"), fd.n)
         ELSE funcDefBody(nodeStore(accepted(fd.ps, "Semicolon"), peekTok(ps),
                                    [FunDecl |-> fd.n]
                                        @@ FunDef(fd.n.Name, fd.n.Returns, fd.n.Params,
                                                  Block(<<>>))),
                          peekTok(ps)))

pAddTypedef(ps, tok, name) ==
    IF IsReserved(name) THEN pErrorf(ps, tok, "typedef name is reserved")
    ELSE IF name \in ps.typedefs THEN failed(ps, "typedef already defined")
    ELSE parsed([ps EXCEPT !.typedefs = @ \cup {name}], Nil)

\* the end of TypedefDef: pp are the parameters of a function pointer, s2 the
\* state after them
typedefEnd(s2, first, tk, aidtok, isfunc, pp) ==
    IF acceptErr(s2, "Semicolon")
    THEN pErrorf(accepted(s2, "Semicolon"), aidtok, "typedef missing ';'")
    ELSE With(pAddTypedef(accepted(s2, "Semicolon"), aidtok, aidtok.value), LAMBDA added :
         IF added.err # "" THEN pErrorf(added.ps, aidtok, "invalid typedef")
         ELSE nodeStore(added.ps, first,
                        IF isfunc THEN TypedefFunc(aidtok.value, tk, pp)
                        ELSE Typedef(aidtok.value, tk)))

pTypedefDef(ps) ==
    LET first == peekTok(ps)
    IN  IF first = NilTok \/ first.kind # "Id" \/ first.value # "typedef"
        THEN failed(peeked(ps), "not a typedef definition")
        ELSE With(pType(popped(peeked(ps))), LAMBDA tk :
             LET aidtok == peekTok(tk.ps)
                 s1 == popped(peeked(tk.ps))
             IN  IF tk.err # "" THEN pErrorf(tk.ps, first, "invalid typedef kind")
                 ELSE IF aidtok = NilTok \/ aidtok.kind # "Id"
                      THEN pErrorf(peeked(tk.ps), first, "expecting typedef identifier")
                 ELSE IF IsReserved(aidtok.value)
                      THEN pErrorf(peeked(tk.ps), aidtok, "typedef identifier is reserved")
                 ELSE IF acceptErr(s1, "LParen")
                      THEN typedefEnd(accepted(s1, "LParen"), first, tk.n, aidtok,
                                      FALSE, <<>>)
                 ELSE With(pFuncParams(accepted(s1, "LParen")), LAMBDA pp :
                      IF pp.err # "" THEN failed(pp.ps, pp.err)
                      ELSE typedefEnd(pp.ps, first, tk.n, aidtok, TRUE, pp.n)))

\* case *node.VarDecl of GlobalDeclDef: the error of FuncDeclDef is recorded
\* and a nil node returned
globalFunc(tvd, first) ==
    With(pFuncDeclDef(tvd.ps, tvd.n), LAMBDA fd :
         IF fd.err = "" \/ fd.ps.panicked THEN fd
         ELSE parsed(pErrorf(fd.ps, first,
                             "invalid function definition/declaration").ps, Nil))

\* the #use directives read files and are not among the inputs
pGlobalDeclDef(ps) ==
    LET first == peekTok(ps)
    IN  IF first = NilTok THEN failed(peeked(ps), "EOT")
        ELSE IF first.kind # "Id"
             THEN pErrorf(peeked(ps), first, "unexpected statement token")
        ELSE IF first.value = "typedef" THEN pTypedefDef(peeked(ps))
        ELSE With(pTopVarDecl(peeked(ps)), LAMBDA tvd :
             IF tvd.ps.panicked THEN tvd
             ELSE IF tvd.err # "" THEN pErrorf(tvd.ps, first, "invalid statement")
             ELSE IF tvd.n.t \in {"StructForwardDecl", "Struct"} THEN tvd
             ELSE globalFunc(tvd, first))

RECURSIVE parseLoop(_)

\* the loop of Parse: a failing declaration is skipped up to and including
\* the next ';' or '}'
parseLoop(ps) ==
    IF Len(ps.toks) = 0 THEN ps
    ELSE With(pGlobalDeclDef(peeked(ps)), LAMBDA newnode :
         IF newnode.ps.panicked THEN newnode.ps
         ELSE IF newnode.err = ""
              THEN parseLoop([newnode.ps EXCEPT !.nodes = Append(@, newnode.n)])
         ELSE parseLoop(popped(found(newnode.ps, {"Semicolon", "RCurly"}))))

pParse(ps) ==
    With(parseLoop([ps EXCEPT !.errs = <<>>, !.nodes = <<>>, !.typedefs = {}]),
         LAMBDA done :
         [ps |-> done, n |-> Nil,
          err |-> IF done.panicked THEN "panic"
                  ELSE IF Len(done.errs) > 0 THEN "parsing met with error(s)" ELSE ""])

(***************************************************************************)
(* The sources the parser is run on.  A source is written as its lexemes;  *)
(* Lex gives each lexeme its kind, the lexeme as its value and its index   *)
(* as its position.  A source is one or two top-level items: declarations, *)
(* definitions of structs and typedefs, functions whose body is well       *)
(* formed, functions with a statement that fails to parse, and items cut   *)
(* short.                                                                  *)
(***************************************************************************)
Punctuation ==
    [x \in {"(", ")", "{", "}", ";", ",", "+", "*", "=", "++", "[", "]", "[]",
             ".", "->", "-"} |->
        CASE x = "(" -> "LParen" [] x = ")" -> "RParen" [] x = "{" -> "LCurly"
          [] x = "}" -> "RCurly" [] x = ";" -> "Semicolon" [] x = "," -> "Comma"
          [] x = "+" -> "Plus" [] x = "*" -> "Star" [] x = "=" -> "Assign"
          [] x = "++" -> "DPlus" [] x = "[" -> "LBrack" [] x = "]" -> "RBrack"
          [] x = "[]" -> "Brackets" [] x = "." -> "Dot" [] x = "->" -> "Arrow"
          [] x = "-" -> "Minus"]

lexKind(w) ==
    IF w \in DOMAIN Punctuation THEN Punctuation[w]
    ELSE IF w = "0" THEN "HexNum"
    ELSE IF \E i \in 1..Len(DecLits) : DecLits[i] = w THEN "DecNum"
    ELSE IF w = "true" THEN "True"
    ELSE IF w = "//" THEN "CommentOne"
    ELSE "Id"

Lex(what) == [i \in 1..Len(what) |-> NewToken(lexKind(what[i]), what[i], i)]

FunHead(name) == <<"int", name, "(", ")">>

GoodBodies ==
    {<<"return", "1", ";">>,
     <<"int", "x", "=", "1", ";", "x", "=", "x", "+", "2", ";">>,
     <<"f", "(", "1", ",", "2", ")", ";", "return", ";">>,
     <<"{", "int", "*", "y", ";", "y", "++", ";", "}">>,
     <<"if", "(", "true", ")", "return", "0", ";", "else", "{", "g", "(", ")", ";", "}">>,
     <<"while", "(", "true", ")", "{", "break", ";", "}", "//">>,
     <<"a", "[", "1", "]", "=", "(", "1", "+", "2", ")", "*", "3", ";">>}

BadBodies ==
    {<<"1", "+">>,
     <<"x", "=", "1">>,
     <<"1", "+", ";", "return", "1", ";">>,
     <<"return", "1", ";", "x", "=", ";", "return", "2", ";">>,
     <<"{", "1", "+", "}", "return", "1", ";">>,
     <<"if", "(", "x", "{", "}", "x", "=", "1", ";">>}

FunDefOf(name, body) == FunHead(name) \o <<"{">> \o body \o <<"}">>

Items ==
    {FunDefOf("f", body) : body \in GoodBodies \cup BadBodies}
    \cup {<<"int", "g", "(", ")", "{", "return", "1", ";", "}">>,
          <<"int", "h", "(", "int", "a", ",", "bool", "b", ")", ";">>,
          <<"struct", "s", ";">>,
          <<"struct", "s", "{", "int", "a", ";", "s", "*", "b", ";", "}", ";">>,
          <<"struct", "s", "{", "int", "a", ";", "}">>,
          <<"typedef", "int", "s", ";">>,
          <<"typedef", "int", "fn", "(", "int", "a", ")", ";">>,
          <<"int", "x", ";">>,
          <<"struct">>,
          <<"struct", "s", "{", "int">>,
          <<"int", "f", "(", ")", "{", "return", "1", ";">>}

Sources == {Lex(i1) : i1 \in Items} \cup {Lex(i1 \o i2) : i1, i2 \in Items}

(***************************************************************************)
(* The expressions Expr is run on, each as the expression of the return    *)
(* statement of a function: an identifier followed by up to three postfix  *)
(* operators, and expressions with parentheses.                            *)
(***************************************************************************)
PostfixOps ==
    {<<".", "b">>, <<"->", "b">>, <<"[", "1", "]">>, <<"(", "x", ")">>}

PostfixChains ==
    {<<"a">> \o o1 : o1 \in PostfixOps}
        \cup {<<"a">> \o o1 \o o2 : o1 \in PostfixOps, o2 \in PostfixOps}
        \cup {<<"a">> \o o1 \o o2 \o o3 :
                o1 \in PostfixOps, o2 \in PostfixOps, o3 \in PostfixOps}

ParenExprs ==
    {<<"(", "a", "+", "b", ")">>,
     <<"(", "a", ")">>,
     <<"(", "a", ")", "*", "2">>,
     <<"1", "+", "(", "a", "+", "b", ")">>,
     <<"(", "(", "a", ")", ")">>,
     <<"-", "(", "a", ")">>,
     <<"(", "1", "+", "2", ")">>,
     <<"(", "-", "a", ")">>,
     <<"(", "int", ")", "a">>,
     <<"(", "int", "*", ")", "a">>,
     <<"(", "a", "+", "b">>,
     <<"(", "a", "b", ")">>}

ExprHead == <<"int", "f", "(", ")", "{", "return">>

ExprSources ==
    {Lex(ExprHead \o e \o <<";", "}">>) : e \in PostfixChains \cup ParenExprs}

\* the tokens of the expression of a source of ExprSources
ExprOf(q) == SubSeq(q, Len(ExprHead) + 1, Len(q) - 2)

NewParse == [op |-> "new", at |-> 0, res |-> failed(NewParser(<<>>), "")]

NoParse == [op |-> "idle", at |-> 0, res |-> failed(NewParser(<<>>), "")]

(***************************************************************************)
(* The functions Form and Connect are run on: bodies of numbered           *)
(* expression statements, returns, breaks, continues, ifs and loops, as    *)
(* in the tests of package cfg.  The numeric statements of a function are  *)
(* numbered 0, 1, 2, ... in source order, so that matchernum(k) matches    *)
(* one statement.                                                          *)
(***************************************************************************)
MaxLabel == 6

Cond == Bool(TRUE)

N == Numeric(0)

Step == Assign(Variable("i"), OpBinary("OPBIN_ADD", Variable("i"), Numeric(1)))

Simple == {N, Return(Nil), Break, Continue}

\* statement lists of at most k simple statements
L0(k) == UNION {[1..j -> Simple] : j \in 0..k}

ForLoop(body) == For(Declare(KindInt, "i", Numeric(0)), Cond, Step, body)

D1 ==
    {If(Cond, Block(b), Nil) : b \in L0(2)}
        \cup {If(Cond, Block(b[1]), Block(b[2])) : b \in L0(1) \X L0(1)}
        \cup {If(Cond, N, N)}
        \cup {While(Cond, Block(b)) : b \in L0(2)}
        \cup {ForLoop(Block(b)) : b \in L0(2)}

\* what the loops of D2 hold between their first and last statements
Inner ==
    {If(Cond, Block(<<Break>>), Nil),
     If(Cond, Block(<<N, Continue>>), Nil),
     If(Cond, Block(<<N>>), Block(<<Break>>)),
     If(Cond, Block(<<N, Break, N>>), Nil),
     If(Cond, Block(<<>>), Nil),
     While(Cond, Block(<<Break>>)),
     While(Cond, Block(<<N>>)),
     If(Cond, Block(<<While(Cond, Block(<<N>>))>>), Nil)}

D2 ==
    UNION {{While(Cond, Block(pre \o <<s>> \o post)),
            ForLoop(Block(pre \o <<s>> \o post))} :
              pre \in {<<>>, <<N>>}, s \in Inner,
              post \in {<<>>, <<N>>, <<Break>>, <<Continue>>}}
        \cup {If(Cond, Block(<<If(Cond, Block(<<N>>), Block(<<N>>)), N>>), Block(<<N>>)),
              If(Cond, Block(<<If(Cond, Block(<<N, Return(Nil)>>), Nil), N>>), Nil)}

Shapes ==
    L0(3) \cup
    {pre \o <<s>> \o post :
        pre \in {<<>>, <<N>>}, s \in D1 \cup D2,
        post \in {<<>>, <<N>>, <<N, Return(Nil), N>>}}

RECURSIVE LabelNode(_, _)

RECURSIVE LabelList(_, _, _, _)

LabelNext(stmts, i, acc, r) == LabelList(stmts, i + 1, r.k, Append(acc, r.v))

\* the statements from index i on, numbered from k; acc the ones before
LabelList(stmts, i, k, acc) ==
    IF i > Len(stmts) THEN [v |-> acc, k |-> k]
    ELSE LabelNext(stmts, i, acc, LabelNode(stmts[i], k))

LabelBlock(r) == [v |-> Block(r.v), k |-> r.k]

LabelElse(n, t, f) == [v |-> If(n.Cond, t.v, f.v), k |-> f.k]

LabelIf(n, t) == LabelElse(n, t, LabelNode(n.False, t.k))

LabelWhile(n, b) == [v |-> While(n.Cond, b.v), k |-> b.k]

LabelFor(n, b) == [v |-> For(n.Init, n.Cond, n.OnEach, b.v), k |-> b.k]

\* n with its numeric statements numbered from k, and the next number
LabelNode(n, k) ==
    CASE n.t = "Numeric" -> [v |-> Numeric(k), k |-> k + 1]
      [] n.t = "Block" -> LabelBlock(LabelList(n.Value, 1, k, <<>>))
      [] n.t = "If" -> LabelIf(n, LabelNode(n.True, k))
      [] n.t = "While" -> LabelWhile(n, LabelNode(n.Body, k))
      [] n.t = "For" -> LabelFor(n, LabelNode(n.Body, k))
      [] OTHER -> [v |-> n, k |-> k]

Labelled(body) == LabelList(body, 1, 0, <<>>)

CfgFunctions ==
    {FunDef("f", KindVoid, <<>>, Block(Labelled(b).v)) :
        b \in {s \in Shapes : Labelled(s).k <= MaxLabel}}

\* cfg.Form(fd)
DoForm ==
    /\ cpc = "parsed"
    /\ cfg' = Form(fundef)
    /\ cpc' = IF Form(fundef).panicked THEN "panicked" ELSE "formed"
    /\ UNCHANGED <<fundef, conn, typeVars, scopeVars, ssaVars, anVars, tokVars, parseVars>>

\* one call c.Connect(start, end) with the matchers of two numbers, or a nil
\* start
DoConnect ==
    /\ cpc = "formed"
    /\ ~conn.called
    /\ \E start \in {NilCb} \cup (0..(MaxLabel - 1)), end \in 0..(MaxLabel - 1) :
          conn' = [called |-> TRUE, start |-> start, end |-> end,
                   res |-> Connect(cfg, start, end)]
    /\ UNCHANGED <<fundef, cfg, cpc, typeVars, scopeVars, ssaVars, anVars, tokVars, parseVars>>

CfgInit ==
    /\ fundef \in CfgFunctions /\ cfg = NewGraph /\ cpc = "parsed" /\ conn = NoConnect
    /\ ta = NilType /\ tb = NilType /\ tc = NilType /\ tres = NoResult
    /\ chain = <<>> /\ sop = NoOp
    /\ prog = Nil /\ ssa = NewSSA /\ vm = NewVM /\ spc = "idle"
    /\ forest = <<>> /\ an = reset /\ apc = NoCall /\ res1 = NoResults
    /\ fifo = <<>> /\ tkop = NoTokOp
    /\ src = <<>> /\ par = NoParse

CfgNext == DoForm \/ DoConnect

SpecCfg == CfgInit /\ [][CfgNext]_vars


(***************************************************************************)
(* The operations of Tokens, one call each, on the FIFOs of at most        *)
(* MaxToks tokens.                                                         *)
(***************************************************************************)
DoPeek ==
    /\ tkop.op # "idle"
    /\ fifo' = toksPeek(fifo).toks
    /\ tkop' = [op |-> "Peek", before |-> fifo, tok |-> toksPeek(fifo).tok, err |-> FALSE]
    /\ UNCHANGED <<typeVars, scopeVars, ssaVars, anVars, cfgVars, parseVars>>

DoPeekAll ==
    /\ tkop.op # "idle"
    /\ fifo' = toksPeekAll(fifo).toks
    /\ tkop' = [op |-> "PeekAll", before |-> fifo, tok |-> toksPeekAll(fifo).tok,
                err |-> FALSE]
    /\ UNCHANGED <<typeVars, scopeVars, ssaVars, anVars, cfgVars, parseVars>>

DoPop ==
    /\ tkop.op # "idle"
    /\ fifo' = toksPop(fifo).toks
    /\ tkop' = [op |-> "Pop", before |-> fifo, tok |-> toksPop(fifo).tok, err |-> FALSE]
    /\ UNCHANGED <<typeVars, scopeVars, ssaVars, anVars, cfgVars, parseVars>>

DoAccept ==
    /\ tkop.op # "idle"
    /\ \E kind \in {"Id", "Semicolon"} :
          /\ fifo' = toksAccept(fifo, kind).toks
          /\ tkop' = [op |-> "Accept", before |-> fifo, tok |-> NilTok,
                      err |-> toksAccept(fifo, kind).err]
    /\ UNCHANGED <<typeVars, scopeVars, ssaVars, anVars, cfgVars, parseVars>>

DoFind ==
    /\ tkop.op # "idle"
    /\ \E kinds \in {{"Semicolon"}, {"Id", "Semicolon"}} :
          /\ fifo' = toksFind(fifo, kinds).toks
          /\ tkop' = [op |-> "Find", before |-> fifo, tok |-> toksFind(fifo, kinds).tok,
                      err |-> FALSE]
    /\ UNCHANGED <<typeVars, scopeVars, ssaVars, anVars, cfgVars, parseVars>>

NewTokOp == [op |-> "new", before |-> <<>>, tok |-> NilTok, err |-> FALSE]

TokensInit ==
    /\ fifo \in Fifos /\ tkop = NewTokOp
    /\ ta = NilType /\ tb = NilType /\ tc = NilType /\ tres = NoResult
    /\ chain = <<>> /\ sop = NoOp
    /\ prog = Nil /\ ssa = NewSSA /\ vm = NewVM /\ spc = "idle"
    /\ forest = <<>> /\ an = reset /\ apc = NoCall /\ res1 = NoResults
    /\ fundef = Nil /\ cfg = NewGraph /\ cpc = "idle" /\ conn = NoConnect
    /\ src = <<>> /\ par = NoParse

TokensNext == DoPeek \/ DoPeekAll \/ DoPop \/ DoAccept \/ DoFind

SpecTokens == TokensInit /\ [][TokensNext]_vars


(***************************************************************************)
(* Forests of assignments: what an assignment in a function body can have  *)
(* on its left.                                                            *)
(***************************************************************************)
Deref(to) == OpUnary("OPUN_DEREF", to)

ArrSub(base, index) == OpBinary("OPBIN_ARRSUB", base, index)

\* int[] f(); int *k(); struct s { int a; };
LvaluePrelude ==
    <<FunDecl("f", KindIntArray, <<>>), FunDecl("k", KindIntPtr, <<>>),
      NodeStruct("s", <<VarDecl(KindInt, "a")>>)>>

LvalueDecls ==
    {Declare(KindInt, "x", Nil),                       \* int x;
     Declare(KindIntArray, "x", Nil),                  \* int[] x;
     Declare(KindIntPtr, "x", Nil),                    \* int *x;
     Declare(KindStruct("s", 1, 0), "x", Nil)}         \* struct s *x;

Targets ==
    {Variable("x"),                                            \* x
     ArrSub(Variable("x"), Numeric(0)),                        \* x[0]
     ArrSub(Call("f", <<>>), Numeric(0)),                      \* f()[0]
     ArrSub(AllocArray(KindInt, Numeric(1)), Numeric(0)),      \* alloc_array(int, 1)[0]
     Deref(Variable("x")),                                     \* *x
     Deref(Call("k", <<>>)),                                   \* *k()
     Deref(Alloc(KindInt)),                                    \* *alloc(int)
     OpBinary("OPBIN_STRUCTPTRDEC", Variable("x"), Variable("a")),          \* x->a
     OpBinary("OPBIN_STRUCTPTRDEC", Alloc(KindStruct("s", 0, 0)), Variable("a")),
     OpBinary("OPBIN_ADD", Variable("x"), Numeric(1)),         \* x + 1
     Call("f", <<>>)}                                          \* f()

LvalueForests ==
    {LvaluePrelude \o <<FunDef("g", KindVoid, <<>>, Block(<<d, Assign(t, Numeric(1))>>))>> :
        d \in LvalueDecls, t \in Targets}

LvalueInit ==
    /\ forest \in LvalueForests /\ an = reset /\ res1 = NoResults
    /\ apc = [pc |-> "analyze", i |-> 1, call |-> 1, on |-> "new"]
    /\ ta = NilType /\ tb = NilType /\ tc = NilType /\ tres = NoResult
    /\ chain = <<>> /\ sop = NoOp
    /\ prog = Nil /\ ssa = NewSSA /\ vm = NewVM /\ spc = "idle"
    /\ fundef = Nil /\ cfg = NewGraph /\ cpc = "idle" /\ conn = NoConnect
    /\ fifo = <<>> /\ tkop = NoTokOp
    /\ src = <<>> /\ par = NoParse


(***************************************************************************)
(* The parser run on a source: Parse on the whole of it, by a new Parser,  *)
(* and Block on the tokens from one of its '{', by a new Parser.           *)
(***************************************************************************)
DoParse ==
    /\ par.op = "new"
    /\ par' = [op |-> "Parse", at |-> 1, res |-> pParse(NewParser(src))]
    /\ UNCHANGED <<src, typeVars, scopeVars, ssaVars, anVars, cfgVars, tokVars>>

DoBlock ==
    /\ par.op = "new"
    /\ \E i \in 1..Len(src) :
          /\ src[i].kind = "LCurly"
          /\ par' = [op |-> "Block", at |-> i,
                     res |-> pBlock(NewParser(SubSeq(src, i, Len(src))))]
    /\ UNCHANGED <<src, typeVars, scopeVars, ssaVars, anVars, cfgVars, tokVars>>

\* p.Expr(toks) by a new Parser on the tokens of the expression
DoExpr ==
    /\ par.op = "new"
    /\ par' = [op |-> "Expr", at |-> Len(ExprHead) + 1,
               res |-> pExpr(NewParser(ExprOf(src)))]
    /\ UNCHANGED <<src, typeVars, scopeVars, ssaVars, anVars, cfgVars, tokVars>>

ExprInit ==
    /\ src \in ExprSources /\ par = NewParse
    /\ ta = NilType /\ tb = NilType /\ tc = NilType /\ tres = NoResult
    /\ chain = <<>> /\ sop = NoOp
    /\ prog = Nil /\ ssa = NewSSA /\ vm = NewVM /\ spc = "idle"
    /\ forest = <<>> /\ an = reset /\ apc = NoCall /\ res1 = NoResults
    /\ fundef = Nil /\ cfg = NewGraph /\ cpc = "idle" /\ conn = NoConnect
    /\ fifo = <<>> /\ tkop = NoTokOp

ExprNext == DoExpr \/ DoParse

SpecExpr == ExprInit /\ [][ExprNext]_vars

ParseInit ==
    /\ src \in Sources /\ par = NewParse
    /\ ta = NilType /\ tb = NilType /\ tc = NilType /\ tres = NoResult
    /\ chain = <<>> /\ sop = NoOp
    /\ prog = Nil /\ ssa = NewSSA /\ vm = NewVM /\ spc = "idle"
    /\ forest = <<>> /\ an = reset /\ apc = NoCall /\ res1 = NoResults
    /\ fundef = Nil /\ cfg = NewGraph /\ cpc = "idle" /\ conn = NoConnect
    /\ fifo = <<>> /\ tkop = NoTokOp

ParseNext == DoParse \/ DoBlock

SpecParse == ParseInit /\ [][ParseNext]_vars

(***************************************************************************)
(* The forests of a struct that is declared forward and defined later:     *)
(* one declaration that names the struct by pointer, written between the   *)
(* forward declaration and the definition or after the definition, and a   *)
(* function that uses the declared name after the definition.  Every one   *)
(* is well typed when struct s names the defined struct.                   *)
(***************************************************************************)
KindStructPtr == KindStruct("s", 1, 0)

KindSp == Kind("KIND_TYPEDEF", 0, 0, "sp")

FieldA(of) == OpBinary("OPBIN_STRUCTPTRDEC", of, Variable("a"))

\* a declaration and the bodies of void f() that use it
StructUses ==
    {\* typedef struct s *sp;
     [decl |-> Typedef("sp", KindStructPtr),
      bodies |-> {<<Declare(KindSp, "p", Nil),                      \* sp p;
                    Assign(FieldA(Variable("p")), Numeric(1))>>,    \* p->a = 1;
                  <<Declare(KindSp, "p", Nil),                      \* sp p;
                    \* struct s *v = p;
                    Declare(KindStructPtr, "v", Variable("p"))>>,
                  <<Declare(KindSp, "p", Alloc(KindStruct("s", 0, 0)))>>}],
     \* struct s *k();
     [decl |-> FunDecl("k", KindStructPtr, <<>>),
      bodies |-> {<<Declare(KindStructPtr, "v", Call("k", <<>>))>>, \* struct s *v = k();
                  <<Declare(KindStructPtr, "v", Nil),               \* struct s *v;
                    Assign(Variable("v"), Call("k", <<>>))>>}],     \* v = k();
     \* void k(struct s *p);
     [decl |-> FunDecl("k", KindVoid, <<VarDecl(KindStructPtr, "p")>>),
      bodies |-> {<<Declare(KindStructPtr, "v", Nil),               \* struct s *v;
                    Call("k", <<Variable("v")>>)>>,                 \* k(v);
                  \* k(alloc(struct s));
                  <<Call("k", <<Alloc(KindStruct("s", 0, 0))>>)>>}],
     \* typedef void fp(struct s *p);
     [decl |-> TypedefFunc("fp", KindVoid, <<VarDecl(KindStructPtr, "p")>>),
      bodies |-> {<<Declare(Kind("KIND_TYPEDEF", 1, 0, "fp"), "g", Nil),   \* fp *g;
                    Declare(KindStructPtr, "v", Nil)>>}]}

StructDefs ==
    {NodeStruct("s", <<VarDecl(KindInt, "a")>>),                    \* struct s { int a; };
     \* struct s { int a; struct s *next; };
     NodeStruct("s", <<VarDecl(KindInt, "a"), VarDecl(KindStructPtr, "next")>>)}

\* the forests of the use u: the declaration before and after the definition
StructForestsOf(u) ==
    UNION {{<<StructForwardDecl("s"), u.decl, sd, FunDef("f", KindVoid, <<>>, Block(b))>>,
            <<StructForwardDecl("s"), sd, u.decl, FunDef("f", KindVoid, <<>>, Block(b))>>} :
              sd \in StructDefs, b \in u.bodies}

StructForests == UNION {StructForestsOf(u) : u \in StructUses}

StructsInit ==
    /\ forest \in StructForests /\ an = reset /\ res1 = NoResults
    /\ apc = [pc |-> "analyze", i |-> 1, call |-> 1, on |-> "new"]
    /\ ta = NilType /\ tb = NilType /\ tc = NilType /\ tres = NoResult
    /\ chain = <<>> /\ sop = NoOp
    /\ prog = Nil /\ ssa = NewSSA /\ vm = NewVM /\ spc = "idle"
    /\ fundef = Nil /\ cfg = NewGraph /\ cpc = "idle" /\ conn = NoConnect
    /\ fifo = <<>> /\ tkop = NoTokOp
    /\ src = <<>> /\ par = NoParse


(***************************************************************************)
(* The forests of a function declared twice: a prototype of h followed by  *)
(* a second prototype or a definition of h, with the same and with other   *)
(* return kinds and parameter lists.                                       *)
(***************************************************************************)
RedeclParams ==
    {<<>>,                                              \* ()
     <<VarDecl(KindInt, "p")>>,                         \* (int p)
     <<VarDecl(KindInt, "q")>>,                         \* (int q)
     <<VarDecl(KindBool, "p")>>,                        \* (bool p)
     <<VarDecl(KindInt, "p"), VarDecl(KindInt, "q")>>}  \* (int p, int q)

\* the body of a definition that returns r
RedeclBody(r) == IF r = KindVoid THEN <<>> ELSE <<Return(Numeric(1))>>

RedeclForests ==
    UNION {{<<FunDecl("h", r1, p1), FunDecl("h", r2, p2)>>,
            <<FunDecl("h", r1, p1), FunDef("h", r2, p2, Block(RedeclBody(r2)))>>} :
              r1 \in {KindInt, KindVoid}, r2 \in {KindInt, KindVoid},
              p1 \in RedeclParams, p2 \in RedeclParams}

RedeclInit ==
    /\ forest \in RedeclForests /\ an = reset /\ res1 = NoResults
    /\ apc = [pc |-> "analyze", i |-> 1, call |-> 1, on |-> "new"]
    /\ ta = NilType /\ tb = NilType /\ tc = NilType /\ tres = NoResult
    /\ chain = <<>> /\ sop = NoOp
    /\ prog = Nil /\ ssa = NewSSA /\ vm = NewVM /\ spc = "idle"
    /\ fundef = Nil /\ cfg = NewGraph /\ cpc = "idle" /\ conn = NoConnect
    /\ fifo = <<>> /\ tkop = NoTokOp
    /\ src = <<>> /\ par = NoParse


\*-- analyzer model above --

(***************************************************************************)
(* Specifications: one per package under verification.                     *)
(***************************************************************************)
TypesNext == CallMatches

TypesInit ==
    /\ ta \in TypeUniverse /\ tb \in TypeUniverse /\ tc \in TypeUniverse
    /\ tres = NoResult
    /\ chain = <<>> /\ sop = NoOp
    /\ prog = Nil /\ ssa = NewSSA /\ vm = NewVM /\ spc = "idle"
    /\ forest = <<>> /\ an = reset /\ apc = NoCall /\ res1 = NoResults
    /\ fundef = Nil /\ cfg = NewGraph /\ cpc = "idle" /\ conn = NoConnect
    /\ fifo = <<>> /\ tkop = NoTokOp
    /\ src = <<>> /\ par = NoParse

SpecTypes == TypesInit /\ [][TypesNext]_vars

ScopeInit ==
    /\ chain = newScope(<<>>) /\ sop = NoOp
    /\ ta = NilType /\ tb = NilType /\ tc = NilType /\ tres = NoResult
    /\ prog = Nil /\ ssa = NewSSA /\ vm = NewVM /\ spc = "idle"
    /\ forest = <<>> /\ an = reset /\ apc = NoCall /\ res1 = NoResults
    /\ fundef = Nil /\ cfg = NewGraph /\ cpc = "idle" /\ conn = NoConnect
    /\ fifo = <<>> /\ tkop = NoTokOp
    /\ src = <<>> /\ par = NoParse

SpecScope == ScopeInit /\ [][ScopeNext]_vars

AnalyzeInit ==
    /\ forest \in Forests /\ an = reset /\ res1 = NoResults
    /\ apc = [pc |-> "analyze", i |-> 1, call |-> 1, on |-> "new"]
    /\ ta = NilType /\ tb = NilType /\ tc = NilType /\ tres = NoResult
    /\ chain = <<>> /\ sop = NoOp
    /\ prog = Nil /\ ssa = NewSSA /\ vm = NewVM /\ spc = "idle"
    /\ fundef = Nil /\ cfg = NewGraph /\ cpc = "idle" /\ conn = NoConnect
    /\ fifo = <<>> /\ tkop = NoTokOp
    /\ src = <<>> /\ par = NoParse

AnalyzeNext == AnalyzeNode \/ AnalyzeReturn \/ AnalyzeAgain \/ AnalyzeAgainNew

SpecAnalyze == AnalyzeInit /\ [][AnalyzeNext]_vars

SsaNext == DoSsaNew \/ DoVmRun

SsaInit ==
    /\ prog \in Programs /\ ssa = NewSSA /\ vm = NewVM /\ spc = "parsed"
    /\ ta = NilType /\ tb = NilType /\ tc = NilType /\ tres = NoResult
    /\ chain = <<>> /\ sop = NoOp
    /\ forest = <<>> /\ an = reset /\ apc = NoCall /\ res1 = NoResults
    /\ fundef = Nil /\ cfg = NewGraph /\ cpc = "idle" /\ conn = NoConnect
    /\ fifo = <<>> /\ tkop = NoTokOp
    /\ src = <<>> /\ par = NoParse

SpecSSA == SsaInit /\ [][SsaNext]_vars

(***************************************************************************)
(* Properties.                                                             *)
(***************************************************************************)

\* C1: for a straight-line int function (declarations with initialisers,
\* re-assignments of declared variables, one final return, expressions over
\* literals, variables, + and *), running the instructions of ssa.New in the
\* VM returns the value the source computes under int32 wrap-around; the
\* example program returns 7.
VmReturnsSourceValue ==
    spc = "ran" =>
        /\ ~vm.panicked
        /\ vm.ret = SourceValue(prog)
        /\ (prog = TestSimple => vm.ret = 7)

\* C1 witness: a program whose arithmetic wraps around has run, with a
\* re-assignment of a declared variable in its body.
WrappedProgramRan ==
    /\ spc = "ran"
    /\ vm.ret < 0
    /\ \E i \in 1..Len(prog.Body.Value) :
          /\ prog.Body.Value[i].t = "OpAssign"
          /\ prog.Body.Value[i].To.t = "Variable"

Binders(ch, x) == {i \in 1..Len(ch) : x \in DOMAIN ch[i]}

Innermost(ch, x) ==
    IF Binders(ch, x) = {} THEN NilType
    ELSE ch[CHOOSE i \in Binders(ch, x) : \A j \in Binders(ch, x) : j <= i][x]

\* C4: a lookup returns the binding of the nearest scope on the chain from
\* the current scope to the root, or nothing; an insertion fails iff the name
\* is bound in the current scope or an ancestor; a failed insertion changes no
\* binding and a successful one binds the name in the current scope only.
ScopeLookupAndInsert ==
    [][/\ sop'.op = "get" =>
            /\ sop'.got = Innermost(chain, sop'.name)
            /\ chain' = chain
       /\ sop'.op = "add" =>
            /\ sop'.err <=> Binders(chain, sop'.name) # {}
            /\ sop'.err => chain' = chain
            /\ ~sop'.err =>
                 /\ Len(chain') = Len(chain)
                 /\ \A i \in 1..Len(chain) : \A x \in ScopeNames :
                       /\ x \in DOMAIN chain'[i] <=>
                             \/ x \in DOMAIN chain[i]
                             \/ (i = Len(chain) /\ x = sop'.name)
                       /\ x \in DOMAIN chain[i] => chain'[i][x] = chain[i][x]
                 /\ chain'[Len(chain)][sop'.name] = sop'.kind]_vars

\* C4 witness: an insertion has failed for a name that only an ancestor of
\* the current scope binds.
InsertFailedOnAncestor ==
    /\ sop.op = "add"
    /\ sop.err
    /\ Len(chain) >= 2
    /\ sop.name \notin DOMAIN chain[Len(chain)]
    /\ Binders(chain, sop.name) # {}

\* C9: type matching is an equivalence relation over the constructible types
\* (reflexive, symmetric, transitive) and Matches always returns a boolean.
MatchesIsEquivalence ==
    tres # NoResult =>
        /\ \A f \in DOMAIN tres : tres[f] \in {"true", "false"}
        /\ tres.aa = "true"
        /\ tres.ab = "true" => tres.ba = "true"
        /\ (tres.ab = "true" /\ tres.bc = "true") => tres.ac = "true"

(***************************************************************************)
(* What the forest under analysis says, read off the nodes themselves.     *)
(***************************************************************************)
RECURSIVE PathsOf(_, _)

\* the paths of n at path p and of the nodes below it
PathsOf(n, p) ==
    {p} \cup UNION {PathsOf(Children(n)[i], p \o <<i>>) : i \in 1..Len(Children(n))}

ForestPaths == UNION {PathsOf(forest[i], <<i>>) : i \in 1..Len(forest)}

RECURSIVE NodeBelow(_, _)

NodeBelow(n, q) == IF q = <<>> THEN n ELSE NodeBelow(Children(n)[Head(q)], Tail(q))

\* the node of the forest at path p
At(p) == NodeBelow(forest[Head(p)], Tail(p))

Prefix(p, q) == Len(p) <= Len(q) /\ SubSeq(q, 1, Len(p)) = p

Parent(p) == SubSeq(p, 1, Len(p) - 1)

\* the names of the diagnostics reported at path p
ErrsAt(p) == {an.errs[i].err : i \in {j \in 1..Len(an.errs) : an.errs[j].at = p}}

\* the diagnostics reported at p or below it
ErrsWithin(p) == {i \in 1..Len(an.errs) : Prefix(p, an.errs[i].at)}

\* the first call of Analyze has returned and no other call has begun
FirstDone == apc.call = 1 /\ apc.pc = "returned"

\* C2: the first call of Analyze on a forest of the parser never aborts: no
\* type error in a condition, an allocation size or a call argument makes
\* the pass panic instead of recording a diagnostic.
AnalyzeNeverAborts == apc.call = 1 => ~an.panicked

\* what C3 permits: the target is an lvalue and the value's type matches the
\* target's, or the value is NULL and the target is a pointer
AssignPermitted(p) ==
    LET kt == getType(an, p \o <<1>>)
        kw == getType(an, p \o <<2>>)
    IN  /\ isAssignable(an, p \o <<1>>)
        /\ kt # NilType
        /\ \/ kw # NilType /\ Matches(kt, kw)
           \/ At(p).What.t = "Null" /\ kt.PointerLevel >= 1

\* C3: an assignment statement is free of diagnostics iff its target is an
\* lvalue and the value's type matches the target's (or the value is NULL and
\* the target a pointer); otherwise at least one diagnostic is reported for it.
AssignDiagnosedIffNotPermitted ==
    FirstDone =>
        \A p \in ForestPaths :
            (At(p).t = "OpAssign" /\ At(p).What # Nil) =>
                (ErrsWithin(p) = {} <=> AssignPermitted(p))

\* the ':' nodes that are the right operand of a '?' node
PairedVals ==
    {p \in ForestPaths :
        /\ At(p).t = "OpBinary" /\ At(p).Op = "OPBIN_TERNARYVALS"
        /\ Len(p) > 1 /\ p[Len(p)] = 2
        /\ At(Parent(p)).t = "OpBinary" /\ At(Parent(p)).Op = "OPBIN_TERNARYCOND"}

\* C5: once the analysis of a top-level node has finished, every ':' node
\* below it that is the right operand of a '?' has pair counter 2 and no
\* pairing diagnostic, and every ':' node whose counter is not 2 is reported
\* as ternary-missing-cond.
TernaryPairsCounted ==
    (apc.call = 1 /\ ~an.panicked) =>
        /\ \A p \in PairedVals :
              p[1] < apc.i =>
                  /\ p \in DOMAIN an.ternaryvals
                  /\ an.ternaryvals[p] = 2
                  /\ "ErrTernaryMissingCond" \notin ErrsAt(p)
        /\ \A p \in DOMAIN an.ternaryvals :
              (p[1] < apc.i /\ an.ternaryvals[p] # 2) =>
                  "ErrTernaryMissingCond" \in ErrsAt(p)


\* the function definitions of the forest and the return statements of one
FunDefs == {p \in ForestPaths : At(p).t = "FunDef"}

ReturnsOf(fp) == {p \in ForestPaths : Prefix(fp, p) /\ At(p).t = "Return"}

ReturnErrs == {"ErrReturnMissing", "ErrReturnMistyped", "ErrReturnExprMissing"}

\* the return at p carries an expression whose type matches the type the
\* analyzer holds for the function of the definition at fp
ReturnMatches(fp, p) ==
    LET fd == getFunction(an, At(fp).Name)
        rt == getType(an, p \o <<1>>)
    IN  /\ At(p).Expr # Nil
        /\ fd # NilFunc
        /\ rt # NilType
        /\ Matches(fd.fn.Returns, rt)

\* C6: in a void function every return that carries an expression is
\* reported; in a non-void function a return without expression is reported
\* as return-expr-missing, and the definition is free of return diagnostics
\* only if some return of its body has an expression of the declared type.
ReturnsCheckedAgainstDeclaration ==
    FirstDone =>
        \A fp \in FunDefs :
            IF At(fp).Returns = KindVoid
            THEN \A p \in ReturnsOf(fp) : At(p).Expr # Nil => ErrsWithin(p) # {}
            ELSE /\ \A p \in ReturnsOf(fp) :
                        At(p).Expr = Nil => "ErrReturnExprMissing" \in ErrsAt(p)
                 /\ (\A p \in {fp} \cup ReturnsOf(fp) : ErrsAt(p) \cap ReturnErrs = {})
                        => \E p \in ReturnsOf(fp) : ReturnMatches(fp, p)

\* the break or continue at p is lexically inside a while or for loop
InLoop(p) == \E k \in 1..(Len(p) - 1) : At(SubSeq(p, 1, k)).t \in {"While", "For"}

\* C7: a break (continue) is reported as break-outside-loop
\* (continue-outside-loop) iff it is not lexically nested in a while or for
\* loop of its function, whatever ifs and blocks lie between, and again after
\* a loop has ended.
JumpReportedIffOutsideLoop ==
    FirstDone =>
        \A p \in ForestPaths :
            /\ At(p).t = "Break" => ("ErrBreakOutsideLoop" \in ErrsAt(p) <=> ~InLoop(p))
            /\ At(p).t = "Continue" =>
                   ("ErrContinueOutsideLoop" \in ErrsAt(p) <=> ~InLoop(p))

\* the struct of that name is forward-declared before top-level node i and
\* not defined before it
OnlyForward(name, i) ==
    /\ \E j \in 1..(i - 1) : forest[j].t = "StructForwardDecl" /\ forest[j].Value = name
    /\ \A j \in 1..(i - 1) : ~(forest[j].t = "Struct" /\ forest[j].Name = name)

\* the uses of a struct that is only forward-declared: the kind nodes naming it
ForwardUses ==
    {p \in ForestPaths :
        /\ At(p).t = "Kind" /\ At(p).Kind = "KIND_STRUCT"
        /\ OnlyForward(At(p).Name, p[1])}

ForwardErrs == {"ErrStructOnlyForward", "ErrStructSizeUnknown", "ErrFuncParamStruct"}

\* C8: every by-value use of a struct that is only forward-declared (the type
\* of a local variable, array element, struct field, parameter or return
\* value) is reported at the kind, its declaration or the declaring node, and
\* a use behind a pointer gets no forward-struct diagnostic.
ForwardStructOnlyByPointer ==
    FirstDone =>
        \A p \in ForwardUses :
            IF At(p).PointerLevel = 0
            THEN ErrsAt(p) \cup ErrsAt(Parent(p)) \cup ErrsAt(Parent(Parent(p))) # {}
            ELSE (ErrsAt(p) \cup ErrsAt(Parent(p))) \cap ForwardErrs = {}

\* C10: a second call of Analyze on an analysed forest, on the same Analyzer
\* or on a new one, returns the same set of diagnostics and the same map from
\* node ids to types as the first call.
ReanalysisReturnsTheSame ==
    apc.call = 2 =>
        /\ ~an.panicked
        /\ apc.pc = "returned" =>
              /\ Range(an.errs) = Range(res1.errs)
              /\ an.NodeTypes = res1.NodeTypes


(***************************************************************************)
(* What a graph says, read off its blocks and branches.                    *)
(***************************************************************************)
Succs(g, b) == {g.blocks[b].Successors[i].To : i \in 1..Len(g.blocks[b].Successors)}

RECURSIVE ReachFrom(_, _)

\* the blocks on the directed paths of zero or more branches from the blocks S
ReachFrom(g, S) ==
    IF UNION {Succs(g, b) : b \in S} \subseteq S THEN S
    ELSE ReachFrom(g, S \cup UNION {Succs(g, b) : b \in S})

Reachable(g) == ReachFrom(g, {BLOCKID_ENTRY})

\* the blocks on the directed paths of one or more branches from b
After(g, b) == ReachFrom(g, Succs(g, b))

HasMatch(g, b, cb) ==
    \E j \in 1..Len(g.blocks[b].Stmts) : matchernum(cb, g.blocks[b].Stmts[j])

\* some directed path from ENTRY executes a statement matching start and
\* later one matching end; with a nil start, some path executes one matching
\* end
PathExists(g, start, end) ==
    IF start = NilCb THEN \E b \in Reachable(g) : HasMatch(g, b, end)
    ELSE \E b \in Reachable(g) :
            \E i \in 1..Len(g.blocks[b].Stmts) :
                /\ matchernum(start, g.blocks[b].Stmts[i])
                /\ \/ \E j \in (i + 1)..Len(g.blocks[b].Stmts) :
                          matchernum(end, g.blocks[b].Stmts[j])
                   \/ \E c \in After(g, b) : HasMatch(g, c, end)

\* C11: Connect(start, end) is true iff the graph has a directed path on
\* which a statement matching start is executed and one matching end is
\* executed later (a nil start being the function entry), also through a
\* loop's back edge and past a block that holds an end match before the
\* start match.
ConnectIffPath == conn.called => (conn.res <=> PathExists(cfg, conn.start, conn.end))


(***************************************************************************)
(* Oracles over the syntax tree of the function: where a statement stands, *)
(* read off the tree and not off the graph.                                *)
(***************************************************************************)
NoLoop == [t |-> "noloop"]

RECURSIVE LoopAround(_, _, _)

\* the innermost loops (cur when none) around the occurrences of statement m
\* in n
LoopAround(n, m, cur) ==
    IF n = m THEN {cur}
    ELSE CASE n.t = "Block" ->
                UNION {LoopAround(n.Value[i], m, cur) : i \in 1..Len(n.Value)}
           [] n.t = "If" -> LoopAround(n.True, m, cur) \cup LoopAround(n.False, m, cur)
           [] n.t \in {"While", "For"} -> LoopAround(n.Body, m, n)
           [] OTHER -> {}

RECURSIVE NumsOf(_)

\* the numbers of the numeric statements in n
NumsOf(n) ==
    CASE n.t = "Numeric" -> {n.Value}
      [] n.t = "Block" -> UNION {NumsOf(n.Value[i]) : i \in 1..Len(n.Value)}
      [] n.t = "If" -> NumsOf(n.True) \cup NumsOf(n.False)
      [] n.t \in {"While", "For"} -> NumsOf(n.Body)
      [] OTHER -> {}

RECURSIVE DeadAfter(_, _)

\* the numeric statements that follow a statement of kind k in its own
\* statement list, at any depth
DeadAfter(n, k) ==
    CASE n.t = "Block" ->
            UNION {DeadAfter(n.Value[i], k) : i \in 1..Len(n.Value)}
                \cup UNION {NumsOf(n.Value[j]) :
                              j \in {j \in 1..Len(n.Value) :
                                       \E i \in 1..(j - 1) : n.Value[i].t = k}}
      [] n.t = "If" -> DeadAfter(n.True, k) \cup DeadAfter(n.False, k)
      [] n.t \in {"While", "For"} -> DeadAfter(n.Body, k)
      [] OTHER -> {}

\* the numeric statements placed in some block of g
PlacedNums(g) ==
    UNION {{g.blocks[b].Stmts[i].Value :
              i \in {i \in 1..Len(g.blocks[b].Stmts) :
                       g.blocks[b].Stmts[i].t = "Numeric"}} : b \in DOMAIN g.blocks}

\* the blocks of g that hold a statement of kind k
BlocksWith(g, k) ==
    {b \in DOMAIN g.blocks :
        \E i \in 1..Len(g.blocks[b].Stmts) : g.blocks[b].Stmts[i].t = k}

Branches(g) ==
    UNION {{g.blocks[b].Successors[i] : i \in 1..Len(g.blocks[b].Successors)} :
             b \in DOMAIN g.blocks}

\* where the loop n is left when its condition is false
AfterLoop(g, n) ==
    {br.To : br \in {x \in Branches(g) :
                       x.Node = n /\ x.Kind \in {"BK_WHILEFALSE", "BK_FORFALSE"}}}

\* the blocks that the loop n goes back to its body from
StepBlocks(g, n) ==
    {br.From : br \in {x \in Branches(g) :
                         /\ x.Node = n
                         /\ x.Kind \in {"BK_WHILETRUE", "BK_FORTRUE"}
                         /\ x.From \in After(g, x.To)}}


\* the statement kinds after which form processes nothing more of the list
LastOf(g, b) == g.blocks[b].Stmts[Len(g.blocks[b].Stmts)]

\* C12: a block in which Form met a break ends with it and has exactly one
\* outgoing edge, of kind ALWAYS, to the block that follows the innermost loop
\* around the break, and not to that loop's step block; the statements that
\* follow a break in its statement list are in no block.
BreakLeavesInnermostLoop ==
    cpc = "formed" =>
        /\ \A b \in BlocksWith(cfg, "Break") :
              /\ LastOf(cfg, b) = Break
              /\ Len(cfg.blocks[b].Successors) = 1
              /\ cfg.blocks[b].Successors[1].Kind = "BK_ALWAYS"
              /\ cfg.blocks[b].Successors[1].Node
                    \in LoopAround(fundef.Body, Break, NoLoop) \ {NoLoop}
              /\ cfg.blocks[b].Successors[1].To
                    \in AfterLoop(cfg, cfg.blocks[b].Successors[1].Node)
              /\ cfg.blocks[b].Successors[1].To
                    \notin StepBlocks(cfg, cfg.blocks[b].Successors[1].Node)
              /\ \A i \in 1..Len(cfg.blocks[b].Stmts) :
                    cfg.blocks[b].Stmts[i].t = "Numeric" =>
                        LoopAround(fundef.Body, cfg.blocks[b].Stmts[i], NoLoop)
                            = {cfg.blocks[b].Successors[1].Node}
        /\ DeadAfter(fundef.Body, "Break") \cap PlacedNums(cfg) = {}

\* a break under an if in a loop, after a numbered statement, with a
\* statement written after a break
BreakUnderIfFormed ==
    /\ cpc = "formed"
    /\ DeadAfter(fundef.Body, "Break") # {}
    /\ \E b \in BlocksWith(cfg, "Break") :
          /\ Len(cfg.blocks[b].Stmts) > 1
          /\ \E x \in Branches(cfg) : x.To = b /\ x.Kind \in {"BK_IFTRUE", "BK_IFFALSE"}


\* C13: a block in which Form met a return ends with that return and has
\* exactly one outgoing edge, of kind ALWAYS, to EXIT; the statements that
\* follow a return in its statement list are in no block, and Connect finds no
\* path to them.
ReturnEndsBlock ==
    cpc = "formed" =>
        /\ \A b \in BlocksWith(cfg, "Return") :
              /\ LastOf(cfg, b).t = "Return"
              /\ \A i \in 1..(Len(cfg.blocks[b].Stmts) - 1) :
                    cfg.blocks[b].Stmts[i].t # "Return"
              /\ Len(cfg.blocks[b].Successors) = 1
              /\ cfg.blocks[b].Successors[1].Kind = "BK_ALWAYS"
              /\ cfg.blocks[b].Successors[1].To = BLOCKID_EXIT
              /\ cfg.blocks[b].Successors[1].Node = LastOf(cfg, b)
        /\ DeadAfter(fundef.Body, "Return") \cap PlacedNums(cfg) = {}
        /\ \A k \in PlacedNums(cfg), j \in DeadAfter(fundef.Body, "Return") :
              ~PathExists(cfg, k, j)
        /\ (conn.called /\ conn.end \in DeadAfter(fundef.Body, "Return")) => ~conn.res

\* an early return under an if, after a numbered statement, and a Connect call
\* that asks for a statement written after a return
EarlyReturnUnderIf ==
    /\ cpc = "formed"
    /\ conn.called /\ conn.end \in DeadAfter(fundef.Body, "Return")
    /\ conn.start \in PlacedNums(cfg)
    /\ \E b \in BlocksWith(cfg, "Return") :
          /\ Len(cfg.blocks[b].Stmts) > 1
          /\ \E x \in Branches(cfg) : x.To = b /\ x.Kind = "BK_IFTRUE"


Jumps == {"Return", "Break", "Continue"}

RECURSIVE LiveIfs(_)

RECURSIVE LiveIfsFrom(_, _)

\* the if statements of the list l from index i on that control reaches
LiveIfsFrom(l, i) ==
    IF i > Len(l) THEN {}
    ELSE LiveIfs(l[i]) \cup (IF l[i].t \in Jumps THEN {} ELSE LiveIfsFrom(l, i + 1))

LiveIfs(n) ==
    CASE n.t = "Block" -> LiveIfsFrom(n.Value, 1)
      [] n.t = "If" -> {n} \cup LiveIfs(n.True) \cup LiveIfs(n.False)
      [] n.t \in {"While", "For"} -> LiveIfs(n.Body)
      [] OTHER -> {}

RECURSIVE RestAfter(_, _)

\* what follows the statement m in the statement lists of n that hold it
RestAfter(n, m) ==
    CASE n.t = "Block" ->
            {SubSeq(n.Value, i + 1, Len(n.Value)) :
                i \in {i \in 1..Len(n.Value) : n.Value[i] = m}}
                \cup UNION {RestAfter(n.Value[i], m) : i \in 1..Len(n.Value)}
      [] n.t = "If" -> RestAfter(n.True, m) \cup RestAfter(n.False, m)
      [] n.t \in {"While", "For"} -> RestAfter(n.Body, m)
      [] OTHER -> {}

RECURSIVE BlockPrefix(_, _, _)

\* the statements of the list l from index i on that belong to the block in
\* which the list starts; acc the ones before
BlockPrefix(l, i, acc) ==
    IF i > Len(l) THEN acc
    ELSE CASE l[i].t \in Jumps -> Append(acc, l[i])
           [] l[i].t \in {"If", "While"} -> acc
           [] l[i].t = "For" -> Append(acc, l[i].Init)
           [] OTHER -> BlockPrefix(l, i + 1, Append(acc, l[i]))

\* a statement list without branching statements
Straight(l) == \A i \in 1..Len(l) : l[i].t \notin Jumps \cup {"If", "While", "For"}

ListOf(n) == IF n.t = "Block" THEN n.Value ELSE <<n>>

\* the edges of kind k that the if statement n got
IfEdges(g, n, k) == {x \in Branches(g) : x.Node = n /\ x.Kind = k}

\* the block to's statements are the head of the list l, and when l is
\* straight-line its only edge is ALWAYS to the block nxt
BranchBlock(g, to, l, nxt) ==
    /\ g.blocks[to].Stmts = BlockPrefix(l, 1, <<>>)
    /\ Straight(l) =>
          /\ Len(g.blocks[to].Successors) = 1
          /\ g.blocks[to].Successors[1].Kind = "BK_ALWAYS"
          /\ g.blocks[to].Successors[1].To = nxt

\* the blocks that may follow the if statement n of the function fd in g: they
\* hold the head of what is written nxt n
AfterIf(g, fd, n) ==
    {a \in DOMAIN g.blocks :
        g.blocks[a].Stmts \in {BlockPrefix(r, 1, <<>>) : r \in RestAfter(fd.Body, n)}}


\* the block b of g branches on the if statement n of the function fd
BranchesOnIf(g, fd, b, n) ==
    /\ Len(g.blocks[b].Successors) = 2
    /\ g.blocks[b].Successors[1].Node = n /\ g.blocks[b].Successors[2].Node = n
    /\ g.blocks[b].Successors[1].Kind = "BK_IFTRUE"
    /\ g.blocks[b].Successors[2].Kind =
          (IF n.False # Nil THEN "BK_IFFALSE" ELSE "BK_IFNOELSE")
    /\ g.blocks[b].Successors[1].To # g.blocks[b].Successors[2].To
    /\ \E a \in AfterIf(g, fd, n) :
          /\ BranchBlock(g, g.blocks[b].Successors[1].To, ListOf(n.True), a)
          /\ IF n.False # Nil
             THEN BranchBlock(g, g.blocks[b].Successors[2].To, ListOf(n.False), a)
             ELSE g.blocks[b].Successors[2].To = a

ExitReachableFromEverywhere ==
    cpc = "formed" =>
        /\ \A x \in Branches(cfg) : x.To \in DOMAIN cfg.blocks
        /\ BLOCKID_EXIT \in Reachable(cfg)
        /\ cfg.blocks[BLOCKID_EXIT].Successors = <<>>
        /\ \A b \in Reachable(cfg) \ {BLOCKID_EXIT} : BLOCKID_EXIT \in After(cfg, b)
        /\ \A b \in Reachable(cfg) \ {BLOCKID_ENTRY} :
              \E x \in Branches(cfg) : x.To = b /\ x.From \in Reachable(cfg)

\* a loop with an if in its body, followed by a return, and a block that no
\* edge leads to
LoopAndDeadBlockFormed ==
    /\ cpc = "formed"
    /\ BlocksWith(cfg, "Return") # {}
    /\ \E x \in Branches(cfg) : x.Kind = "BK_IFTRUE"
    /\ \E x \in Branches(cfg) : x.Kind \in {"BK_WHILETRUE", "BK_FORTRUE"}
    /\ DOMAIN cfg.blocks \ Reachable(cfg) # {}


\* the indexes of the STORE instructions of the list that target the variable
\* named x
StoresTo(insts, x) ==
    {i \in 1..Len(insts) : insts[i].op = "Store" /\ insts[i].To.Name = x}

\* C16: in the IR of a straight-line function, the STORE instructions that
\* target a variable x have strictly increasing generation counters: of two
\* stores to x, the later one targets a Variable{x, count} with the greater
\* count.
StoreGenerationsIncrease ==
    (spc \in {"built", "ran"} /\ ~ssa.panicked) =>
        \A x \in DOMAIN ssa.generations :
            \A i \in StoresTo(ssa.Instructions, x), j \in StoresTo(ssa.Instructions, x) :
                i < j => ssa.Instructions[i].To.Count < ssa.Instructions[j].To.Count


\* the first token of the FIFO q that is not a comment, NilTok if none
FirstNonComment(q) ==
    IF \A i \in 1..Len(q) : q[i].kind \in {"CommentOne", "CommentMulti"} THEN NilTok
    ELSE q[CHOOSE i \in 1..Len(q) :
               /\ q[i].kind \notin {"CommentOne", "CommentMulti"}
               /\ \A j \in 1..(i - 1) : q[j].kind \in {"CommentOne", "CommentMulti"}]

NonComments(q) == SelectSeq(q, LAMBDA t : t.kind \notin {"CommentOne", "CommentMulti"})

\* C20: Peek returns the first token in FIFO order that is not a comment, or
\* nothing when there is none, and never a comment; PeekAll returns the head
\* whatever its kind; neither removes a token that is not a comment, and
\* PeekAll removes none.
PeekSkipsComments ==
    /\ tkop.op = "Peek" =>
          /\ tkop.tok = FirstNonComment(tkop.before)
          /\ tkop.tok.kind \notin {"CommentOne", "CommentMulti"}
          /\ NonComments(fifo) = NonComments(tkop.before)
    /\ tkop.op = "PeekAll" =>
          /\ tkop.tok = (IF tkop.before = <<>> THEN NilTok ELSE Head(tkop.before))
          /\ fifo = tkop.before

\* Peek on a FIFO that starts with two comments and holds a token and a
\* comment after them
PeekedPastComments ==
    /\ tkop.op = "Peek"
    /\ Len(tkop.before) = 4
    /\ tkop.before[1].kind = "CommentOne" /\ tkop.before[2].kind = "CommentMulti"
    /\ tkop.before[3].kind = "Id" /\ tkop.before[4].kind = "CommentOne"
    /\ tkop.tok = tkop.before[3]


\* the forests of assignments under the steps of Analyze
SpecLvalue == LvalueInit /\ [][AnalyzeNext]_vars

\* C19: a node is in the lvalue set only if it is a variable, a variable
\* declaration, or a subscript, a dereference or a field access whose base is
\* in the lvalue set; so no subscript, dereference or field access of a call
\* result, a cast, an allocation or an arithmetic result is assignable.
LvalueOnlyOverLvalueBase ==
    (apc.call = 1 /\ ~an.panicked) =>
        \A p \in an.canassign :
            \/ At(p).t \in {"Variable", "VarDecl"}
            \/ /\ At(p).t = "OpBinary"
               /\ At(p).Op \in {"OPBIN_ARRSUB", "OPBIN_STRUCTDEC", "OPBIN_STRUCTPTRDEC"}
               /\ (p \o <<1>>) \in an.canassign
            \/ /\ At(p).t = "OpUnary" /\ At(p).Op = "OPUN_DEREF"
               /\ (p \o <<1>>) \in an.canassign




RECURSIVE ClosingCurly(_, _, _)

\* the index of the '}' that closes the block whose statements begin at
\* index i of q, depth being the number of blocks opened since; 0 if none
ClosingCurly(q, i, depth) ==
    IF i > Len(q) THEN 0
    ELSE IF q[i].kind = "LCurly" THEN ClosingCurly(q, i + 1, depth + 1)
    ELSE IF q[i].kind = "RCurly"
         THEN IF depth = 0 THEN i ELSE ClosingCurly(q, i + 1, depth - 1)
    ELSE ClosingCurly(q, i + 1, depth)

\* C17: Block, called at a '{' of the source whose closing '}' is in the
\* source, consumes no token beyond that '}', whether or not statements of
\* the block failed to parse and were skipped: the FIFO it leaves is the
\* tokens that follow the '}', so that what follows the block is parsed from
\* its first token.
RecoveryStaysInBlock ==
    (par.op = "Block" /\ ~par.res.ps.panicked /\ ClosingCurly(src, par.at + 1, 0) # 0)
        => par.res.ps.toks = SubSeq(src, ClosingCurly(src, par.at + 1, 0) + 1, Len(src))

\* the paths of the forest Parse has built, and the node at a path
ParsedPaths ==
    UNION {PathsOf(par.res.ps.nodes[i], <<i>>) : i \in 1..Len(par.res.ps.nodes)}

ParsedAt(p) == NodeBelow(par.res.ps.nodes[Head(p)], Tail(p))

\* nil entries and nil children are no nodes
ParsedNodes == {p \in ParsedPaths : ParsedAt(p) # Nil}

\* the node has a Common, Id() returns an id other than NODEID_INVALID and
\* Tok of it is a token of the source
IsTagged(n) ==
    /\ "Common" \in DOMAIN n
    /\ n.Common[1] # NODEID_INVALID
    /\ n.Common[1] \in 1..Len(par.res.ps.toktags)
    /\ par.res.ps.toktags[n.Common[1]] \in Range(src)
    /\ n.t = "Variable" => par.res.ps.toktags[n.Common[1]].value = n.Value
    /\ n.t = "Block" => par.res.ps.toktags[n.Common[1]].kind = "LCurly"

\* C18: after Parse, every node of the forest, at any depth, carries an id
\* other than NODEID_INVALID that no other node of the forest carries, and
\* Tok of the id is the token the node was stored with.
EveryParsedNodeTagged ==
    (par.op = "Parse" /\ ~par.res.ps.panicked)
        => \A p \in ParsedNodes :
              /\ IsTagged(ParsedAt(p))
              /\ \A q \in ParsedNodes \ {p} :
                    IsTagged(ParsedAt(q)) => ParsedAt(q).Common # ParsedAt(p).Common


(***************************************************************************)
(* Form on what the analyzer lets through.                                 *)
(***************************************************************************)
\* Analyze([fd]) on a new Analyzer returns no error
Accepted(fd) ==
    With(check(reset, fd, <<1>>), LAMBDA s : ~s.panicked /\ s.errs = <<>>)

\* the blocks that end with the jump of kind k leave by one ALWAYS edge of a
\* loop around such a jump, to a block of to(loop)
JumpsLeaveTo(k, to(_, _)) ==
    \A b \in BlocksWith(cfg, k) :
        /\ Len(cfg.blocks[b].Successors) = 1
        /\ cfg.blocks[b].Successors[1].Kind = "BK_ALWAYS"
        /\ cfg.blocks[b].Successors[1].Node
              \in LoopAround(fundef.Body, [t |-> k], NoLoop) \ {NoLoop}
        /\ cfg.blocks[b].Successors[1].To \in to(cfg, cfg.blocks[b].Successors[1].Node)

\* C21: for every function definition the analyzer accepts, Form returns a
\* graph and does not abort, and in the graph every block with a break has an
\* ALWAYS edge to the block after a loop around the break, every block with a
\* continue an ALWAYS edge to the step block of a loop around the continue,
\* also when the jump follows a nested inner loop in the outer loop's body.
FormCompletesOnAccepted ==
    (cpc # "parsed" /\ Accepted(fundef)) =>
        /\ cpc = "formed"
        /\ JumpsLeaveTo("Break", AfterLoop)
        /\ JumpsLeaveTo("Continue", StepBlocks)


(***************************************************************************)
(* Struct types after the definition of the struct.                        *)
(***************************************************************************)
\* the forests of a struct declared forward and defined later under the
\* steps of Analyze
SpecStructs == StructsInit /\ [][AnalyzeNext]_vars

\* the types the analyzer keeps for typedefs, functions and function typedefs
KeptTypes(s) ==
    {s.Typedefs[n] : n \in DOMAIN s.Typedefs}
        \cup UNION {{s.Functions[n].fn.Returns} \cup Range(s.Functions[n].fn.ParamTypes) :
                      n \in DOMAIN s.Functions}
        \cup UNION {{s.TypedefFuncs[n].Returns} \cup Range(s.TypedefFuncs[n].ParamTypes) :
                      n \in DOMAIN s.TypedefFuncs}

\* C22: once the definition of a struct has been analysed, no type kept for a
\* typedef, a function parameter or a function return type denotes the struct
\* as forward declared only, also when the declaration was analysed before
\* the definition; and the function that uses the declared name after the
\* definition, for field access or against a value of the struct pointer type
\* declared later, is analysed without a diagnostic.
DefinedStructDenotedEverywhere ==
    /\ \A t \in KeptTypes(an) :
          t.Type = "TYPE_STRUCT_FWD" => t.Extra.Name \notin DOMAIN an.Structs
    /\ (apc.pc = "returned" /\ apc.call = 1 /\ ~an.panicked) => an.errs = <<>>


(***************************************************************************)
(* Functions declared twice.                                               *)
(***************************************************************************)
\* the forests of a function declared twice under the steps of Analyze
SpecRedecl == RedeclInit /\ [][AnalyzeNext]_vars

\* the kinds of the parameters of a declaration, in order
ParamKinds(n) == [i \in 1..Len(n.Params) |-> n.Params[i].Kind]

SameSignature(n, m) == n.Returns = m.Returns /\ ParamKinds(n) = ParamKinds(m)

\* the type the analyzer builds for the declaration n of plain kinds
SignatureOf(n) ==
    Function(NewType(kinds_to_types(n.Returns.Kind), 0, 0),
             [i \in 1..Len(n.Params) |-> NewType(kinds_to_types(n.Params[i].Kind.Kind), 0, 0)])

\* C23: when a declared function is declared or defined again with the same
\* return kind and parameter kinds, no diagnostic is recorded for the second
\* declaration; when it is declared again with another return kind or
\* parameter list, func-different-type is recorded for the second
\* declaration; in both cases the function table keeps the first signature.
RedeclarationBySignature ==
    (apc.call = 1 /\ apc.i = 3) =>
        /\ SameSignature(forest[1], forest[2]) => ErrsWithin(<<2>>) = {}
        /\ ~SameSignature(forest[1], forest[2]) =>
              "ErrFuncDifferentType" \in ErrsAt(<<2>>)
        /\ an.Functions["h"].fn = SignatureOf(forest[1])


(***************************************************************************)
(* What Expr returns, read without the tags of Store.                      *)
(***************************************************************************)
RECURSIVE Bare(_)

\* the node n without the Common of its nodes and the base of its numerals
Bare(n) ==
    CASE n.t = "Variable" -> Variable(n.Value)
      [] n.t = "Numeric" -> Numeric(n.Value)
      [] n.t = "OpBinary" -> OpBinary(n.Op, Bare(n.Left), Bare(n.Right))
      [] n.t = "OpUnary" -> OpUnary(n.Op, Bare(n.To))
      [] n.t = "Args" -> Args([i \in 1..Len(n.Value) |-> Bare(n.Value[i])])
      [] n.t = "Cast" -> Cast(Bare(n.To), Bare(n.What))
      [] n.t = "Kind" -> Kind(n.Kind, n.PointerLevel, n.ArrayLevel, n.Name)
      [] OTHER -> n

\* the expression the run of the parser has returned: the node Expr returns,
\* and for Parse the expression of the return statement of the function
ParsedExpr ==
    IF par.op = "Expr" THEN par.res.n
    ELSE IF par.res.ps.nodes = <<>> \/ par.res.ps.nodes[1] = Nil THEN Nil
    ELSE par.res.ps.nodes[1].Body.Value[1].Expr

ExprRan == par.op \in {"Expr", "Parse"} /\ ~par.res.ps.panicked

\* an identifier or a decimal literal as a node
AtomOf(tok) ==
    IF tok.kind = "Id" THEN Variable(tok.value) ELSE Numeric(ParseInt(tok.value).pi)

RECURSIVE PostfixFold(_, _, _)

\* the postfix operators of q from token i on, applied one after the other to
\* the expression acc before them
PostfixFold(q, i, acc) ==
    IF i > Len(q) THEN acc
    ELSE CASE q[i].kind = "Dot" ->
                PostfixFold(q, i + 2, OpBinary("OPBIN_STRUCTDEC", acc, AtomOf(q[i + 1])))
           [] q[i].kind = "Arrow" ->
                PostfixFold(q, i + 2,
                            OpBinary("OPBIN_STRUCTPTRDEC", acc, AtomOf(q[i + 1])))
           [] q[i].kind = "LBrack" ->
                PostfixFold(q, i + 3, OpBinary("OPBIN_ARRSUB", acc, AtomOf(q[i + 1])))
           [] q[i].kind = "LParen" ->
                PostfixFold(q, i + 3,
                            OpBinary("OPBIN_FUNCALL", acc, Args(<<AtomOf(q[i + 1])>>)))

ChainSources == {Lex(ExprHead \o e \o <<";", "}">>) : e \in PostfixChains}

\* C24: an identifier followed by postfix operators parses as the operators
\* applied left to right, each to the whole postfix expression before it:
\* a.b[1] is the subscript of (a.b), a->b(x) the call of (a->b), a[1].b the
\* field access of (a[1]); no subscript or call takes the field name alone as
\* its operand.
PostfixAppliesToWhole ==
    (ExprRan /\ src \in ChainSources) =>
        /\ par.res.err = ""
        /\ Bare(ParsedExpr) = PostfixFold(ExprOf(src), 2, AtomOf(ExprOf(src)[1]))


\* the expressions in parentheses that begin with an ordinary identifier,
\* with the expression each one stands for
Grouped ==
    {[e |-> <<"(", "a", "+", "b", ")">>,
      n |-> OpBinary("OPBIN_ADD", Variable("a"), Variable("b"))],
     [e |-> <<"(", "a", ")">>, n |-> Variable("a")],
     [e |-> <<"(", "a", ")", "*", "2">>,
      n |-> OpBinary("OPBIN_MUL", Variable("a"), Numeric(2))],
     [e |-> <<"1", "+", "(", "a", "+", "b", ")">>,
      n |-> OpBinary("OPBIN_ADD", Numeric(1),
                     OpBinary("OPBIN_ADD", Variable("a"), Variable("b")))],
     [e |-> <<"(", "(", "a", ")", ")">>, n |-> Variable("a")],
     [e |-> <<"-", "(", "a", ")">>, n |-> OpUnary("OPUN_NEG", Variable("a"))]}

GroupedOf(q) == {g \in Grouped : q = Lex(ExprHead \o g.e \o <<";", "}">>)}

\* C25: an expression in parentheses whose first token after '(' is an
\* ordinary identifier is parsed as the grouped expression: the parser returns
\* the inner expression and no error, and its error list stays empty, so
\* that Parse of the function around the expression returns no error.
GroupedLeavesNoError ==
    (ExprRan /\ GroupedOf(src) # {}) =>
        /\ par.res.err = ""
        /\ \A g \in GroupedOf(src) : Bare(ParsedExpr) = g.n
        /\ par.res.ps.errs = <<>>

(***************************************************************************)
(* Functions whose expressions use the binary operators of the lowering    *)
(* rules and one more: a declaration with an initialiser at most, then a   *)
(* return.                                                                 *)
(***************************************************************************)
LowerOps == {"OPBIN_ADD", "OPBIN_MUL", "OPBIN_BXOR", "OPBIN_SUB"}

LowerAtoms(nv) == {Numeric(2)} \cup {Variable(VarNames[i]) : i \in 1..nv}

LowerExprs(nv) ==
    LowerAtoms(nv) \cup
    {OpBinary(o, l, r) : o \in LowerOps, l \in LowerAtoms(nv), r \in LowerAtoms(nv)} \cup
    {OpBinary(o, OpBinary(q, Numeric(2), Numeric(2)), Numeric(2)) :
        o \in LowerOps, q \in LowerOps}

LowerBodies ==
    {<<Return(e)>> : e \in LowerExprs(0)} \cup
    {<<OpAssign("OPASN_PLAIN", VarDecl(KindInt, VarNames[1]), e), Return(r)>> :
        e \in {OpBinary(o, Numeric(2), Numeric(2)) : o \in LowerOps} \cup {Numeric(2)},
        r \in LowerExprs(1)}

LowerPrograms == {FunDef("f", KindInt, <<>>, Block(b)) : b \in LowerBodies}

LowerInit ==
    /\ prog \in LowerPrograms /\ ssa = NewSSA /\ vm = NewVM /\ spc = "parsed"
    /\ ta = NilType /\ tb = NilType /\ tc = NilType /\ tres = NoResult
    /\ chain = <<>> /\ sop = NoOp
    /\ forest = <<>> /\ an = reset /\ apc = NoCall /\ res1 = NoResults
    /\ fundef = Nil /\ cfg = NewGraph /\ cpc = "idle" /\ conn = NoConnect
    /\ fifo = <<>> /\ tkop = NoTokOp
    /\ src = <<>> /\ par = NoParse

SpecLower == LowerInit /\ [][SsaNext]_vars

\* the register an instruction writes, as a set
DestOf(inst) ==
    IF inst.op \in {"Mov", "Load", "Add", "Mul", "Xor"} THEN {inst.To} ELSE {}

\* the anonymous registers an instruction reads as operands
ReadsOf(inst) ==
    {v \in (CASE inst.op \in {"Add", "Mul", "Xor"} -> {inst.Left, inst.Right}
              [] inst.op = "Store" -> {inst.From}
              [] inst.op = "Return" -> {inst.With}
              [] OTHER -> {}) : v.Name = ""}

DefinedAt(insts, r) == {i \in 1..Len(insts) : r \in DestOf(insts[i])}

\* the binary operators in the expressions of the function
RECURSIVE OpsIn(_)

OpsIn(n) ==
    CASE n.t = "OpBinary" -> {n.Op} \cup OpsIn(n.Left) \cup OpsIn(n.Right)
      [] n.t = "OpAssign" -> OpsIn(n.What)
      [] n.t = "Return" -> OpsIn(n.Expr)
      [] OTHER -> {}

OpsOf(fd) == UNION {OpsIn(fd.Body.Value[i]) : i \in 1..Len(fd.Body.Value)}

\* the binary operators of the lowering rules
ListedOps == {"OPBIN_ADD", "OPBIN_MUL", "OPBIN_BXOR"}

\* C26: in the instruction list of ssa.New every anonymous register is the
\* destination of exactly one instruction and every register read as an
\* operand is the destination of an earlier instruction, for every binary
\* operator of the lowering rules, XOR included, and XOR is lowered to an
\* XOR instruction.
RegistersDefinedBeforeUse ==
    (spc \in {"built", "ran"} /\ ~ssa.panicked /\ OpsOf(prog) \subseteq ListedOps) =>
        /\ \A k \in 1..ssa.reggen :
              Cardinality(DefinedAt(ssa.Instructions, IrVariable("", k))) = 1
        /\ \A i \in 1..Len(ssa.Instructions) :
              \A r \in ReadsOf(ssa.Instructions[i]) :
                 \E j \in DefinedAt(ssa.Instructions, r) : j < i
        /\ "OPBIN_BXOR" \in OpsOf(prog) =>
              \E i \in 1..Len(ssa.Instructions) : ssa.Instructions[i].op = "Xor"

(***************************************************************************)
(* ssa.New call by call.  emitBlock is recursive; a frame of the Go stack  *)
(* holds the block and the index of the successor the range loop is at.    *)
(* spc holds the stack, the number of emitBlock calls made and how many    *)
(* of them each block got.  The functions are int functions whose first    *)
(* statement declares a, followed by assignments, ifs, loops and a return. *)
(***************************************************************************)
MaxCalls == 60

Frame(bb) == [bb |-> bb, next |-> 1]

SetA == OpAssign("OPASN_PLAIN", Variable("a"), Numeric(2))

DeclA == OpAssign("OPASN_PLAIN", VarDecl(KindInt, "a"), Numeric(2))

RetA == Return(Variable("a"))

EmitItems ==
    {SetA, VarDecl(KindInt, "b"),
     If(Cond, Block(<<SetA>>), Nil),
     If(Cond, Block(<<SetA>>), Block(<<SetA>>)),
     If(Cond, Block(<<RetA>>), Nil),
     If(Cond, Block(<<If(Cond, Block(<<SetA>>), Block(<<SetA>>))>>), Block(<<SetA>>)),
     If(Cond, Block(<<VarDecl(KindInt, "b")>>), Nil),
     While(Cond, Block(<<SetA>>)),
     While(Cond, Block(<<Break>>)),
     While(Cond, Block(<<VarDecl(KindInt, "b")>>)),
     While(Cond, Block(<<RetA>>)),
     For(DeclA, Cond, SetA, Block(<<SetA>>))}

EmitBodies ==
    {<<DeclA>> \o m \o <<RetA>> : m \in UNION {[1..j -> EmitItems] : j \in 0..2}}

EmitPrograms ==
    {fd \in {FunDef("f", KindInt, <<>>, Block(b)) : b \in EmitBodies} : ~Form(fd).panicked}

NoEmit(g) == [pc |-> "new", stack |-> <<>>, calls |-> 0, visits |-> [b \in DOMAIN g.blocks |-> 0]]

\* one call emitBlock(bb) up to its range over the successors
enterBlock(s, g, p, bb) ==
    [ssa |-> emitStmts(s, g.blocks[bb].Stmts),
     spc |-> [pc |-> IF emitStmts(s, g.blocks[bb].Stmts).panicked THEN "panicked"
                     ELSE "emitting",
              stack |-> <<Frame(bb)>> \o p.stack,
              calls |-> p.calls + 1,
              visits |-> [p.visits EXCEPT ![bb] = @ + 1]]]

\* build: the label, then emitBlock(s.cfg.First())
DoBuild ==
    /\ spc.pc = "new"
    /\ ssa' = enterBlock(emit(ssa, [op |-> "Label", Name |-> "entry"]), cfg, spc,
                         BLOCKID_ENTRY).ssa
    /\ spc' = enterBlock(emit(ssa, [op |-> "Label", Name |-> "entry"]), cfg, spc,
                         BLOCKID_ENTRY).spc
    /\ UNCHANGED <<prog, vm, typeVars, scopeVars, anVars, cfgVars, tokVars, parseVars>>

\* A range loop that calls emitBlock only for a successor no call was made
\* for yet: a search that remembers the blocks it visited.
DoEmitBlockUnvisited ==
    /\ spc.pc = "emitting"
    /\ spc.calls < MaxCalls
    /\ spc.stack # <<>>
    /\ Head(spc.stack).next <= Len(cfg.blocks[Head(spc.stack).bb].Successors)
    /\ With(cfg.blocks[Head(spc.stack).bb].Successors[Head(spc.stack).next].To,
            LAMBDA to :
              IF spc.visits[to] > 0
              THEN /\ spc' = [spc EXCEPT !.stack[1].next = @ + 1]
                   /\ ssa' = ssa
              ELSE /\ ssa' = enterBlock(ssa, cfg,
                                        [spc EXCEPT !.stack[1].next = @ + 1], to).ssa
                   /\ spc' = enterBlock(ssa, cfg,
                                        [spc EXCEPT !.stack[1].next = @ + 1], to).spc)
    /\ UNCHANGED <<prog, vm, typeVars, scopeVars, anVars, cfgVars, tokVars, parseVars>>

\* the range loop of the frame on top calls emitBlock(succ.To)
DoEmitBlock ==
    /\ spc.pc = "emitting"
    /\ spc.calls < MaxCalls
    /\ spc.stack # <<>>
    /\ Head(spc.stack).next <= Len(cfg.blocks[Head(spc.stack).bb].Successors)
    /\ ssa' = enterBlock(ssa, cfg,
                         [spc EXCEPT !.stack[1].next = @ + 1],
                         cfg.blocks[Head(spc.stack).bb].Successors[Head(spc.stack).next].To).ssa
    /\ spc' = enterBlock(ssa, cfg,
                         [spc EXCEPT !.stack[1].next = @ + 1],
                         cfg.blocks[Head(spc.stack).bb].Successors[Head(spc.stack).next].To).spc
    /\ UNCHANGED <<prog, vm, typeVars, scopeVars, anVars, cfgVars, tokVars, parseVars>>

\* the range loop of the frame on top is over: emitBlock returns, and New
\* returns after the last frame
DoEmitReturn ==
    /\ spc.pc = "emitting"
    /\ spc.stack # <<>>
    /\ Head(spc.stack).next > Len(cfg.blocks[Head(spc.stack).bb].Successors)
    /\ spc' = [spc EXCEPT !.stack = Tail(@),
                          !.pc = IF Tail(spc.stack) = <<>> THEN "built" ELSE @]
    /\ UNCHANGED <<prog, ssa, vm, typeVars, scopeVars, anVars, cfgVars, tokVars, parseVars>>

EmitNext == DoBuild \/ DoEmitBlock \/ DoEmitReturn

EmitInit ==
    /\ prog \in EmitPrograms /\ cfg = Form(prog) /\ ssa = NewSSA /\ vm = NewVM
    /\ spc = NoEmit(Form(prog))
    /\ ta = NilType /\ tb = NilType /\ tc = NilType /\ tres = NoResult
    /\ chain = <<>> /\ sop = NoOp
    /\ forest = <<>> /\ an = reset /\ apc = NoCall /\ res1 = NoResults
    /\ fundef = Nil /\ cpc = "idle" /\ conn = NoConnect
    /\ fifo = <<>> /\ tkop = NoTokOp
    /\ src = <<>> /\ par = NoParse

SpecEmit == EmitInit /\ [][EmitNext]_vars /\ WF_vars(EmitNext)

\* no directed cycle among the blocks reachable from the first block
Acyclic(g) == \A b \in Reachable(g) : b \notin After(g, b)

\* the branches into b from reachable blocks, as pairs of block and index
BranchesInto(g, b) ==
    UNION {{<<p, i>> : i \in {j \in 1..Len(g.blocks[p].Successors) :
                                 g.blocks[p].Successors[j].To = b}} :
              p \in Reachable(g)}

RECURSIVE PathsTo(_, _)

RECURSIVE PathsVia(_, _)

\* the number of the directed paths, as sequences of branches, from the
\* first block to b in an acyclic graph
PathsTo(g, b) ==
    (IF b = BLOCKID_ENTRY THEN 1 ELSE 0) + PathsVia(g, BranchesInto(g, b))

PathsVia(g, E) ==
    IF E = {} THEN 0
    ELSE With(CHOOSE e \in E : TRUE,
              LAMBDA e : PathsTo(g, e[1]) + PathsVia(g, E \ {e}))

\* the blocks from which a cycle can be entered
CanLoop(g, b) == \E c \in {b} \cup After(g, b) : c \in After(g, c)

\* the successors the range loops of the frames have not reached yet
Pending(g, stack) ==
    UNION {{g.blocks[stack[k].bb].Successors[i].To :
               i \in stack[k].next..Len(g.blocks[stack[k].bb].Successors)} :
              k \in 1..Len(stack)}

\* the statements emitNode has a case for, over declared variables
Handled(g) ==
    \A b \in Reachable(g) :
        \A i \in 1..Len(g.blocks[b].Stmts) : g.blocks[b].Stmts[i] \in {DeclA, SetA, RetA}

EmitReturned == spc.pc = "built"

\* what the run of the emitter says about blocks, paths and cycles
EmitsOncePerPath ==
    /\ EmitReturned =>
          /\ Acyclic(cfg)
          /\ \A b \in DOMAIN cfg.blocks :
                spc.visits[b] = IF b \in Reachable(cfg) THEN PathsTo(cfg, b) ELSE 0
    /\ (spc.pc = "emitting" /\ ~Acyclic(cfg)) =>
          \E b \in Pending(cfg, spc.stack) : CanLoop(cfg, b)

MaxAfter == 3

ColonExprs ==
    {OpBinary("OPBIN_TERNARYVALS", Numeric(1), Numeric(2)),      \* 1 : 2;
     Ternary(Bool(TRUE), Numeric(1), Numeric(2)),                \* true ? 1 : 2;
     \* true ? (1 : 2) : 3;
     Ternary(Bool(TRUE), OpBinary("OPBIN_TERNARYVALS", Numeric(1), Numeric(2)),
             Numeric(3)),
     \* x = 1 : 2;
     Assign(Variable("x"), OpBinary("OPBIN_TERNARYVALS", Numeric(1), Numeric(2)))}

AfterNodes ==
    {FunDecl("g", KindVoid, <<>>),                               \* void g();
     FunDef("k", KindVoid, <<>>, Block(<<>>)),                   \* void k() {}
     \* void m() { 1 : 2; }
     FunDef("m", KindVoid, <<>>,
            Block(<<OpBinary("OPBIN_TERNARYVALS", Numeric(1), Numeric(2))>>))}

TernaryForests ==
    {<<FunDef("f", KindVoid, <<>>, Block(<<e>>))>> \o tail :
        e \in ColonExprs, tail \in UNION {[1..j -> AfterNodes] : j \in 0..MaxAfter}}

TernaryInit ==
    /\ forest \in TernaryForests /\ an = reset /\ res1 = NoResults
    /\ apc = [pc |-> "analyze", i |-> 1, call |-> 1, on |-> "new"]
    /\ ta = NilType /\ tb = NilType /\ tc = NilType /\ tres = NoResult
    /\ chain = <<>> /\ sop = NoOp
    /\ prog = Nil /\ ssa = NewSSA /\ vm = NewVM /\ spc = "idle"
    /\ fundef = Nil /\ cfg = NewGraph /\ cpc = "idle" /\ conn = NoConnect
    /\ fifo = <<>> /\ tkop = NoTokOp
    /\ src = <<>> /\ par = NoParse

SpecTernary == TernaryInit /\ [][AnalyzeNext]_vars

\* the ternary-missing-cond diagnostics recorded at the node p
MissingCondAt(p) ==
    {i \in 1..Len(an.errs) :
        an.errs[i].at = p /\ an.errs[i].err = "ErrTernaryMissingCond"}

\* the ':' nodes of the top-level nodes analyzed so far that are not under
\* a '?'
UnpairedVals ==
    {p \in ForestPaths :
        /\ p[1] < apc.i
        /\ At(p).t = "OpBinary" /\ At(p).Op = "OPBIN_TERNARYVALS"
        /\ p \notin PairedVals}

\* C28: within one call of Analyze every unpaired ':' node gives rise to
\* exactly one ternary-missing-cond diagnostic, however many top-level
\* nodes follow the one that contains it.
UnpairedReportedOnce ==
    (apc.call = 1 /\ ~an.panicked) =>
        \A p \in UnpairedVals : Cardinality(MissingCondAt(p)) = 1

(***************************************************************************)
(* Parse and Block iteration by iteration.  par.res.ps is the state the    *)
(* loop has reached, par.loop the statements and the inerror flag of       *)
(* Block's loop; op is "parsing" or "blocking" while the loop runs, and    *)
(* "Parse" or "Block" once the function has returned.  A panic leaves op   *)
(* as it is: the function never returns.                                   *)
(***************************************************************************)
NoLoopState == [stmts |-> <<>>, inerror |-> FALSE]

StepSources ==
    Sources \cup
    {Lex(<<"//">>), Lex(<<";">>), Lex(<<"}", "}">>), Lex(<<"//", "int", "x", ";", "//">>),
     Lex(<<"int", "f", "(", ")", "{", "//", "}">>), Lex(<<"int", "f", "(", ")", "{", ";", "}">>)}

\* one iteration of the loop of Parse
parseIter(ps) ==
    With(pGlobalDeclDef(peeked(ps)), LAMBDA newnode :
         IF newnode.ps.panicked THEN newnode.ps
         ELSE IF newnode.err = ""
              THEN [newnode.ps EXCEPT !.nodes = Append(@, newnode.n)]
         ELSE popped(found(newnode.ps, {"Semicolon", "RCurly"})))

\* one iteration of the loop of Block, after its condition
blockIter(ps, l) ==
    With(pStmt(peeked(ps)), LAMBDA stmt :
         IF stmt.ps.panicked THEN [ps |-> stmt.ps, loop |-> l]
         ELSE IF stmt.err # ""
              THEN [ps |-> popped(found(stmt.ps, {"Semicolon", "RCurly"})),
                    loop |-> [stmts |-> Append(l.stmts, stmt.n), inerror |-> TRUE]]
         ELSE [ps |-> stmt.ps,
               loop |-> [stmts |-> Append(l.stmts, stmt.n), inerror |-> l.inerror]])

\* Parse up to its loop
DoParseBegin ==
    /\ par.op = "new"
    /\ par' = [op |-> "parsing", at |-> 1, loop |-> NoLoopState,
               res |-> failed([NewParser(src) EXCEPT !.errs = <<>>, !.nodes = <<>>,
                                                     !.typedefs = {}], "")]
    /\ UNCHANGED <<src, typeVars, scopeVars, ssaVars, anVars, cfgVars, tokVars>>

DoParseIter ==
    /\ par.op = "parsing"
    /\ ~par.res.ps.panicked
    /\ Len(par.res.ps.toks) > 0
    /\ par' = [par EXCEPT !.res.ps = parseIter(par.res.ps)]
    /\ UNCHANGED <<src, typeVars, scopeVars, ssaVars, anVars, cfgVars, tokVars>>

DoParseReturn ==
    /\ par.op = "parsing"
    /\ ~par.res.ps.panicked
    /\ Len(par.res.ps.toks) = 0
    /\ par' = [par EXCEPT !.op = "Parse",
                          !.res.err = IF Len(par.res.ps.errs) > 0
                                      THEN "parsing met with error(s)" ELSE ""]
    /\ UNCHANGED <<src, typeVars, scopeVars, ssaVars, anVars, cfgVars, tokVars>>

\* Block at a '{' of the source, up to its loop
DoBlockBegin ==
    /\ par.op = "new"
    /\ \E i \in 1..Len(src) :
          /\ src[i].kind = "LCurly"
          /\ par' = [op |-> "blocking", at |-> i, loop |-> NoLoopState,
                     res |-> failed(popped(peeked(NewParser(SubSeq(src, i, Len(src))))), "")]
    /\ UNCHANGED <<src, typeVars, scopeVars, ssaVars, anVars, cfgVars, tokVars>>

DoBlockIter ==
    /\ par.op = "blocking"
    /\ ~par.res.ps.panicked
    /\ peekTok(par.res.ps) # NilTok /\ peekTok(par.res.ps).kind # "RCurly"
    /\ par' = [par EXCEPT !.res.ps = blockIter(par.res.ps, par.loop).ps,
                          !.loop = blockIter(par.res.ps, par.loop).loop]
    /\ UNCHANGED <<src, typeVars, scopeVars, ssaVars, anVars, cfgVars, tokVars>>

DoBlockReturn ==
    /\ par.op = "blocking"
    /\ ~par.res.ps.panicked
    /\ peekTok(par.res.ps) = NilTok \/ peekTok(par.res.ps).kind = "RCurly"
    /\ par' = [par EXCEPT !.op = "Block",
                  !.res = IF acceptErr(par.res.ps, "RCurly")
                          THEN pErrorf(accepted(par.res.ps, "RCurly"), src[par.at],
                                       "block not terminated")
                          ELSE IF par.loop.inerror
                               THEN failed(accepted(par.res.ps, "RCurly"),
                                           "block contained errors")
                          ELSE nodeStore(accepted(par.res.ps, "RCurly"), src[par.at],
                                         Block(par.loop.stmts))]
    /\ UNCHANGED <<src, typeVars, scopeVars, ssaVars, anVars, cfgVars, tokVars>>

StepsNext ==
    \/ DoParseBegin \/ DoParseIter \/ DoParseReturn
    \/ DoBlockBegin \/ DoBlockIter \/ DoBlockReturn

StepsInit ==
    /\ src \in StepSources /\ par = [NewParse EXCEPT !.res = failed(NewParser(src), "")]
    /\ ta = NilType /\ tb = NilType /\ tc = NilType /\ tres = NoResult
    /\ chain = <<>> /\ sop = NoOp
    /\ prog = Nil /\ ssa = NewSSA /\ vm = NewVM /\ spc = "idle"
    /\ forest = <<>> /\ an = reset /\ apc = NoCall /\ res1 = NoResults
    /\ fundef = Nil /\ cfg = NewGraph /\ cpc = "idle" /\ conn = NoConnect
    /\ fifo = <<>> /\ tkop = NoTokOp

SpecSteps == StepsInit /\ [][StepsNext]_vars

\* the loops of Parse and Block give what Parse and Block give
StepsAgree ==
    /\ par.op = "Parse" => par.res.ps = pParse(NewParser(src)).ps
    /\ par.op = "Block" => par.res = pBlock(NewParser(SubSeq(src, par.at, Len(src))))

\* C29: on a finite token sequence every iteration of the loop of Parse and
\* every iteration of the statement loop of Block removes at least one
\* token from the FIFO, whether the item parsed or was skipped; no
\* iteration ends Parse otherwise than by going on to the next one, so that
\* Parse returns after at most as many iterations as there are tokens; and
\* the FIFO is empty when Parse returns.
ParseTerminates ==
    /\ [][(DoParseIter \/ DoBlockIter) =>
              Len(par'.res.ps.toks) < Len(par.res.ps.toks)]_vars
    /\ [](par.op = "parsing" => ~par.res.ps.panicked)
    /\ [](par.op = "Parse" => par.res.ps.toks = <<>>)

(***************************************************************************)
(* Analyze node by node.  The check of a function definition, a block or   *)
(* a loop is either made as one step or entered: entering does what check  *)
(* does before it calls a() on the children, leaving does what it does     *)
(* after them.  apc.stack holds a frame for each node entered: its path,   *)
(* the node, the last elements of its children's paths, the next child     *)
(* the Analyzer as it was on entry, and whether its parameters are still   *)
(* being checked.  apc.last is the node whose check has just returned,     *)
(* with the Analyzer as it was when that check was entered; it is NoLast   *)
(* when the last step was not the return of a check.                       *)
(***************************************************************************)
NoLast == [path |-> <<>>, node |-> Nil, entry |-> reset]

NestStatements ==
    {Declare(KindInt, "x", Numeric(1)),                \* int x = 1;
     Declare(KindInt, "x", Bool(TRUE)),                \* int x = true;
     Assign(Variable("x"), Numeric(1)),                \* x = 1;
     Break,                                            \* break;
     Return(Numeric(1)),                               \* return 1;
     \* { int x = 1; }
     Block(<<Declare(KindInt, "x", Numeric(1))>>),
     \* { int y = true; { int x; } x = 1; }
     Block(<<Declare(KindInt, "y", Bool(TRUE)), Block(<<Declare(KindInt, "x", Nil)>>),
             Assign(Variable("x"), Numeric(1))>>),
     \* while (true) { int x = 1; break; }
     While(Bool(TRUE), Block(<<Declare(KindInt, "x", Numeric(1)), Break>>)),
     \* while (1) { while (true) { continue; } return; }
     While(Numeric(1), Block(<<While(Bool(TRUE), Block(<<Continue>>)), Return(Nil)>>)),
     \* for (int i = 0; true; ) { i = true; }
     For(Declare(KindInt, "i", Numeric(0)), Bool(TRUE), Nil,
         Block(<<Assign(Variable("i"), Bool(TRUE))>>)),
     \* if (true) { int x; } else { break; }
     If(Bool(TRUE), Block(<<Declare(KindInt, "x", Nil)>>), Block(<<Break>>))}

NestForests ==
    {pre \o <<FunDef("f", r, ps, Block(b))>> \o post :
        pre \in {<<>>, <<FunDecl("f", KindInt, <<>>)>>},
        r \in {KindVoid, KindInt},
        ps \in {<<>>, <<VarDecl(KindInt, "x")>>},
        b \in UNION {[1..k -> NestStatements] : k \in 1..2},
        post \in {<<>>, <<FunDecl("g", KindVoid, <<VarDecl(KindInt, "x")>>)>>}}

\* the children a() is called on by the check of an entered node, as the
\* last elements of their paths; those of a function definition are its
\* parameters until checkFunDecl has run, and its body after that
KidsOf(n) ==
    CASE n.t = "FunDef" -> [k \in 1..Len(n.Params) |-> k + 1]
      [] n.t = "Block" -> [k \in 1..Len(n.Value) |-> k]
      [] n.t = "While" -> <<1, 2>>
      [] n.t = "For" -> <<1, 2, 3, 4>>

\* the node whose check comes next
NextNode ==
    IF apc.stack = <<>> THEN forest[apc.i]
    ELSE Children(Head(apc.stack).node)[Head(apc.stack).kids[Head(apc.stack).next]]

\* the path of the node whose check comes next
NextPath ==
    IF apc.stack = <<>> THEN <<apc.i>>
    ELSE Head(apc.stack).path \o <<Head(apc.stack).kids[Head(apc.stack).next]>>

HasNext ==
    IF apc.stack = <<>> THEN apc.i <= Len(forest)
    ELSE Head(apc.stack).next <= Len(Head(apc.stack).kids)

\* the position after the check of the next node
Advanced ==
    IF apc.stack = <<>> THEN [apc EXCEPT !.i = @ + 1]
    ELSE [apc EXCEPT !.stack[1].next = @ + 1]

\* what the check of n does before the first call of a() on a child
checkEnter(s, n, p) ==
    CASE n.t \in {"FunDef", "Block"} -> enterScope(s)
      [] n.t \in {"While", "For"} -> enterLoop(s, p)

\* what the check of a function definition does between the parameters and
\* the body: checkFunDecl, and the start of withFunction
funDefDecl(s, n, p) ==
    With(checkFunDecl(s, n, p), LAMBDA s1 :
         IF s1.panicked THEN s1
         ELSE With(getFunction(s1, n.Name), LAMBDA cf :
                   IF cf = NilFunc
                   THEN errorf([s1 EXCEPT !.curfunc = cf], p, "ErrFuncDeclInvalid")
                   ELSE [s1 EXCEPT !.curfunc = cf]))

\* the end of the function passed to withFunction
funDefEnd(s, p) ==
    LET cf == s.curfunc
        count == IF cf.ptr \in DOMAIN s.returns THEN s.returns[cf.ptr] ELSE 0
    IN  IF cf = NilFunc THEN panic(errorf(s, p, "invalid function definition"))
        ELSE IF ~Matches(cf.fn.Returns, typeVoid) /\ count = 0
        THEN errorf(s, p, "ErrReturnMissing")
        ELSE s

\* what the check of n does after the last call of a() on a child;
\* withFunction has not called the body when it found no function
checkLeave(s, n, p) ==
    CASE n.t = "FunDef" ->
            IF s.curfunc = NilFunc THEN leaveScope(s)
            ELSE With(funDefEnd(s, p), LAMBDA s1 :
                 leaveScope(IF s1.panicked THEN s1 ELSE [s1 EXCEPT !.curfunc = NilFunc]))
      [] n.t = "Block" -> leaveScope(s)
      [] n.t = "While" -> leaveLoop(after(s, checkCond(s, n.Cond, p \o <<1>>)))
      [] n.t = "For" -> leaveLoop(after(s, checkCond(s, n.Cond, p \o <<2>>)))

\* the check of the next node as one step; Analyze calls checkTernaries
\* after the check of a top-level node
NestCheck ==
    /\ apc.pc = "analyze" /\ ~an.panicked /\ HasNext
    /\ \E p \in {NextPath} : \E n \in {NextNode} : \E s \in {check(an, n, p)} :
          /\ an' \in IF apc.stack = <<>> THEN AnalyzeOne(s) ELSE {s}
          /\ apc' = [Advanced EXCEPT !.last = [path |-> p, node |-> n, entry |-> an]]
    /\ UNCHANGED <<forest, res1, typeVars, scopeVars, ssaVars, cfgVars, tokVars, parseVars>>

\* the check of the next node is entered
NestEnter ==
    /\ apc.pc = "analyze" /\ ~an.panicked /\ HasNext
    /\ \E p \in {NextPath} : \E n \in {NextNode} :
          /\ n.t \in {"FunDef", "Block", "While", "For"}
          /\ an' = checkEnter(an, n, p)
          /\ apc' = [Advanced EXCEPT
                        !.last = NoLast,
                        !.stack = <<[path |-> p, node |-> n, kids |-> KidsOf(n),
                                     next |-> 1, entry |-> an,
                                     params |-> n.t = "FunDef"]>> \o @]
    /\ UNCHANGED <<forest, res1, typeVars, scopeVars, ssaVars, cfgVars, tokVars, parseVars>>

\* the parameters of the function definition entered last are checked:
\* checkFunDecl, then withFunction, which calls the body if it finds the
\* function
NestFunDecl ==
    /\ apc.pc = "analyze" /\ ~an.panicked /\ apc.stack # <<>> /\ ~HasNext
    /\ Head(apc.stack).params
    /\ \E p \in {Head(apc.stack).path} : \E n \in {Head(apc.stack).node} :
       \E s \in {funDefDecl(an, n, p)} :
          /\ an' = s
          /\ apc' = [apc EXCEPT !.last = NoLast,
                                !.stack[1].params = FALSE,
                                !.stack[1].next = 1,
                                !.stack[1].kids =
                                    IF s.curfunc = NilFunc THEN <<>>
                                    ELSE <<Len(n.Params) + 2>>]
    /\ UNCHANGED <<forest, res1, typeVars, scopeVars, ssaVars, cfgVars, tokVars, parseVars>>

\* the check of the node entered last returns
NestLeave ==
    /\ apc.pc = "analyze" /\ ~an.panicked /\ apc.stack # <<>> /\ ~HasNext
    /\ ~Head(apc.stack).params
    /\ \E p \in {Head(apc.stack).path} : \E n \in {Head(apc.stack).node} :
       \E s \in {checkLeave(an, n, p)} :
          /\ an' \in IF Len(apc.stack) = 1 THEN AnalyzeOne(s) ELSE {s}
          /\ apc' = [apc EXCEPT !.stack = Tail(@),
                                !.last = [path |-> p, node |-> n,
                                          entry |-> Head(apc.stack).entry]]
    /\ UNCHANGED <<forest, res1, typeVars, scopeVars, ssaVars, cfgVars, tokVars, parseVars>>

\* Analyze returns
NestReturn ==
    /\ apc.pc = "analyze" /\ ~an.panicked /\ apc.stack = <<>> /\ ~HasNext
    /\ apc' = [apc EXCEPT !.pc = "returned", !.last = NoLast]
    /\ res1' = Results(an)
    /\ UNCHANGED <<forest, an, typeVars, scopeVars, ssaVars, cfgVars, tokVars, parseVars>>

NestNext == NestCheck \/ NestEnter \/ NestFunDecl \/ NestLeave \/ NestReturn

NestInit ==
    /\ forest \in NestForests /\ an = reset /\ res1 = NoResults
    /\ apc = [pc |-> "analyze", i |-> 1, call |-> 1, on |-> "new", stack |-> <<>>,
              last |-> NoLast]
    /\ ta = NilType /\ tb = NilType /\ tc = NilType /\ tres = NoResult
    /\ chain = <<>> /\ sop = NoOp
    /\ prog = Nil /\ ssa = NewSSA /\ vm = NewVM /\ spc = "idle"
    /\ fundef = Nil /\ cfg = NewGraph /\ cpc = "idle" /\ conn = NoConnect
    /\ fifo = <<>> /\ tkop = NoTokOp
    /\ src = <<>> /\ par = NoParse

SpecNest == NestInit /\ [][NestNext]_vars

\* s has the current scope, the loop stack and the current function of e:
\* the current scope is the same scope when it is as deep in the same
\* enclosing scopes
Restored(e, s) ==
    /\ Len(s.scope) = Len(e.scope)
    /\ parentScope(s.scope) = parentScope(e.scope)
    /\ s.loops = e.loops
    /\ s.curfunc = e.curfunc

\* C30: when the check of a node has returned, the current scope, the loop
\* stack and the current function are those of its entry, whatever
\* diagnostics were recorded inside; after a block, a function definition
\* or a function declaration the scopes hold the names they held before it;
\* when Analyze has returned the current scope is the root scope, no loop
\* is open and no function is current
ScopesRestored ==
    /\ (apc.last # NoLast /\ ~an.panicked) =>
          /\ Restored(apc.last.entry, an)
          /\ apc.last.node.t \in {"Block", "FunDef", "FunDecl"} =>
                an.scope = apc.last.entry.scope
    /\ apc.pc = "returned" =>
          Len(an.scope) = 1 /\ an.loops = <<>> /\ an.curfunc = NilFunc

\* The check of { int y = true; { int x; } x = 1; } has returned, entered
\* inside a node entered before it: it recorded the wrong initialiser and the x
\* that is not declared after the inner block
NestedBlockLeft ==
    /\ apc.last.node =
          Block(<<Declare(KindInt, "y", Bool(TRUE)), Block(<<Declare(KindInt, "x", Nil)>>),
                  Assign(Variable("x"), Numeric(1))>>)
    /\ ~an.panicked
    /\ apc.stack # <<>>
    /\ Len(an.errs) >= Len(apc.last.entry.errs) + 2
    /\ apc.last.entry.scope # reset.scope

====
